---- MODULE Spec2Model ----
(***************************************************************************)
(* A model of the `wave` CPU rasterizer: the Stage framebuffer and its     *)
(* pixel/span primitives (src/src/stage.rs), the colour/style model        *)
(* (src/src/style.rs) and the rasterizers that draw through them.          *)
(*                                                                         *)
(* Representation.  A colour is the tuple <<r, g, b, a>> of its four       *)
(* bytes.  A stage value is the record [width, height, framebuf, panicked,  *)
(* aborted, large]: framebuf is the row-major Vec of pixels (Vec index i   *)
(* is framebuf[i+1]), panicked records that a Rust panic (a failed         *)
(* assert!/expect or an out-of-range Vec index) ended the call, aborted    *)
(* that the process was aborted (the allocator refused the Vec), large     *)
(* that the stage has 2^31 pixels or more and is held at full width.       *)
(* Option values are <<>> for None and <<v>> for Some(v).                  *)
(***************************************************************************)
EXTENDS Integers, Sequences, FiniteSets, TLC

VARIABLES
    pc,        \* "start" before Stage::new, "live" with a Stage ("large" with
               \* one of 2^31 pixels or more), "panicked", "aborted"
    width,     \* Stage.width
    height,    \* Stage.height
    framebuf,  \* Stage.framebuf
    op         \* the last call made: its name, arguments and return value

vars == <<pc, width, height, framebuf, op>>

\* ------------------------------------------------------------------ bounds
\* Largest pixel count width*height of a stage the model constructs.
MaxPixels == 4

\* ----------------------------------------------------------------- options
None == <<>>
Some(v) == <<v>>
IsSome(o) == o # <<>>
Unwrap(o) == o[1]

Max(a, b) == IF a >= b THEN a ELSE b
Min(a, b) == IF a <= b THEN a ELSE b

\* ------------------------------------------------------------------ colours
TRANSPARENT == <<0, 0, 0, 0>>
BLACK == <<0, 0, 0, 255>>
WHITE == <<255, 255, 255, 255>>
RED == <<255, 0, 0, 255>>
GREEN == <<0, 255, 0, 255>>
BLUE == <<0, 0, 255, 255>>

\* Color::rgba: the stored array.
rgba(color) == color

\* ----------------------------------------------------------- Fill and Stroke
\* Opacity wraps a byte; Fill is [color, opacity], Stroke adds the width.
OPAQUE == 255

Fill_new(color, opacity) == [color |-> color, opacity |-> opacity]
Stroke_new(color, opacity, w) == [color |-> color, opacity |-> opacity, width |-> w]

\* u16 arithmetic: the value, and whether it left the range of a u16 (a panic
\* in a debug build, a wrapped value in a release build).
U16Wrap(n) == n % 65536
U16Overflows(n) == n > 65535

\* The resolved alpha ((a * f + 127) / 255) as u8 of an alpha a and opacity f.
\* Slip: the quotient is truncated, not rounded.
EffectiveAlphaTruncated(a, f) == (U16Wrap(a * f) \div 255) % 256

EffectiveAlpha(a, f) == (U16Wrap(U16Wrap(a * f) + 127) \div 255) % 256

\* Whether the u16 expression a * f + 127 overflows.
AlphaOverflows(a, f) == U16Overflows(a * f) \/ U16Overflows(U16Wrap(a * f) + 127)

\* Fill::rgba and Stroke::rgba: the colour with its alpha scaled by the opacity.
Fill_rgba(fill) ==
    [fill.color EXCEPT ![4] = EffectiveAlpha(fill.color[4], fill.opacity)]

Stroke_rgba(stroke) ==
    [stroke.color EXCEPT ![4] = EffectiveAlpha(stroke.color[4], stroke.opacity)]

\* ------------------------------------------------- usize (64-bit) arithmetic
\* A usize is modelled at its full width as USIZE_BYTES little-endian
\* base-256 digits, so that checked_mul overflows exactly where the code's does.
USIZE_BYTES == 8

UsizeOf(n) ==
    [i \in 1..USIZE_BYTES |->
        IF i = 1 THEN n % 256
        ELSE IF i = 2 THEN (n \div 256) % 256
        ELSE IF i = 3 THEN (n \div 65536) % 256
        ELSE IF i = 4 THEN (n \div 16777216) % 256
        ELSE 0]

UsizeIsZero(d) == \A i \in 1..USIZE_BYTES : d[i] = 0

\* The digits fit the model's integers (below 2^31).
UsizeIsSmall(d) == d[4] < 128 /\ \A i \in 5..USIZE_BYTES : d[i] = 0

\* The value of a usize as a model integer.  The model's integers end below
\* 2^31: a usize that is not UsizeIsSmall is kept as its digits, whole, and is
\* never reduced to an integer.
UsizeToInt(d) ==
    IF UsizeIsSmall(d)
    THEN d[1] + 256 * d[2] + 65536 * d[3] + 16777216 * d[4]
    ELSE d

\* Column k (0-based) of the schoolbook product of a and b.
RECURSIVE MulColumn(_, _, _, _)
MulColumn(a, b, k, i) ==
    IF i > USIZE_BYTES THEN 0
    ELSE (IF k - (i - 1) >= 0 /\ k - (i - 1) < USIZE_BYTES
          THEN a[i] * b[k - (i - 1) + 1] ELSE 0)
         + MulColumn(a, b, k, i + 1)

\* Digits k.. of the full 2*USIZE_BYTES-digit product, carry propagated.
RECURSIVE MulDigits(_, _, _, _)
MulDigits(a, b, k, carry) ==
    IF k >= 2 * USIZE_BYTES THEN <<>>
    ELSE LET t == MulColumn(a, b, k, 1) + carry
         IN  <<t % 256>> \o MulDigits(a, b, k + 1, t \div 256)

\* Slip: the product wraps instead of being checked.
wrapping_mul(a, b) == Some(SubSeq(MulDigits(a, b, 0, 0), 1, USIZE_BYTES))

\* usize::checked_mul: None when the product does not fit a usize.
checked_mul(a, b) ==
    LET p == MulDigits(a, b, 0, 0)
    IN  IF \E i \in (USIZE_BYTES + 1)..(2 * USIZE_BYTES) : p[i] # 0
        THEN None
        ELSE Some(SubSeq(p, 1, USIZE_BYTES))

\* Number of significant bits of a usize.
RECURSIVE BitsOfByte(_)
BitsOfByte(b) == IF b = 0 THEN 0 ELSE 1 + BitsOfByte(b \div 2)

RECURSIVE UsizeBits(_, _)
UsizeBits(d, i) ==
    IF i = 0 THEN 0
    ELSE IF d[i] # 0 THEN 8 * (i - 1) + BitsOfByte(d[i])
    ELSE UsizeBits(d, i - 1)

\* ---------------------------------------------------------------------- f32
\* An f32 is the record [k, m, e]: k = "fin" is the finite value m * 2^e with
\* m = 0 (and e = 0) or m odd, |m| < 2^24; k = "inf" is the infinity of sign m;
\* k = "nan" is a NaN.  The sign of zero is not kept: no operation modelled
\* here (comparison, addition, rounding, casts) tells -0.0 from 0.0.
Pow2(n) == 2 ^ n

Abs(n) == IF n < 0 THEN 0 - n ELSE n
Sign(n) == IF n < 0 THEN 0 - 1 ELSE IF n > 0 THEN 1 ELSE 0

\* Number of bits of n, 0 <= n < 2^31 (the least k with n < 2^k), found by
\* bisection on k.
BitLen(n) ==
    IF n < 32768
    THEN IF n < 128
         THEN IF n < 8
              THEN IF n < 2
                   THEN IF n < 1
                        THEN 0
                        ELSE 1
                   ELSE IF n < 4
                        THEN 2
                        ELSE 3
              ELSE IF n < 32
                   THEN IF n < 16
                        THEN 4
                        ELSE 5
                   ELSE IF n < 64
                        THEN 6
                        ELSE 7
         ELSE IF n < 2048
              THEN IF n < 512
                   THEN IF n < 256
                        THEN 8
                        ELSE 9
                   ELSE IF n < 1024
                        THEN 10
                        ELSE 11
              ELSE IF n < 8192
                   THEN IF n < 4096
                        THEN 12
                        ELSE 13
                   ELSE IF n < 16384
                        THEN 14
                        ELSE 15
    ELSE IF n < 8388608
         THEN IF n < 524288
              THEN IF n < 131072
                   THEN IF n < 65536
                        THEN 16
                        ELSE 17
                   ELSE IF n < 262144
                        THEN 18
                        ELSE 19
              ELSE IF n < 2097152
                   THEN IF n < 1048576
                        THEN 20
                        ELSE 21
                   ELSE IF n < 4194304
                        THEN 22
                        ELSE 23
         ELSE IF n < 134217728
              THEN IF n < 33554432
                   THEN IF n < 16777216
                        THEN 24
                        ELSE 25
                   ELSE IF n < 67108864
                        THEN 26
                        ELSE 27
              ELSE IF n < 536870912
                   THEN IF n < 268435456
                        THEN 28
                        ELSE 29
                   ELSE IF n < 1073741824
                        THEN 30
                        ELSE 31

\* Number of trailing zero bits of m, 0 < |m| < 2^31 (the greatest k with 2^k
\* dividing m), found the same way.
TrailingZeros(m) ==
    IF m % 32768 = 0
    THEN IF m % 8388608 = 0
         THEN IF m % 134217728 = 0
              THEN IF m % 536870912 = 0
                   THEN IF m % 1073741824 = 0
                        THEN 30
                        ELSE 29
                   ELSE IF m % 268435456 = 0
                        THEN 28
                        ELSE 27
              ELSE IF m % 33554432 = 0
                   THEN IF m % 67108864 = 0
                        THEN 26
                        ELSE 25
                   ELSE IF m % 16777216 = 0
                        THEN 24
                        ELSE 23
         ELSE IF m % 524288 = 0
              THEN IF m % 2097152 = 0
                   THEN IF m % 4194304 = 0
                        THEN 22
                        ELSE 21
                   ELSE IF m % 1048576 = 0
                        THEN 20
                        ELSE 19
              ELSE IF m % 131072 = 0
                   THEN IF m % 262144 = 0
                        THEN 18
                        ELSE 17
                   ELSE IF m % 65536 = 0
                        THEN 16
                        ELSE 15
    ELSE IF m % 128 = 0
         THEN IF m % 2048 = 0
              THEN IF m % 8192 = 0
                   THEN IF m % 16384 = 0
                        THEN 14
                        ELSE 13
                   ELSE IF m % 4096 = 0
                        THEN 12
                        ELSE 11
              ELSE IF m % 512 = 0
                   THEN IF m % 1024 = 0
                        THEN 10
                        ELSE 9
                   ELSE IF m % 256 = 0
                        THEN 8
                        ELSE 7
         ELSE IF m % 8 = 0
              THEN IF m % 32 = 0
                   THEN IF m % 64 = 0
                        THEN 6
                        ELSE 5
                   ELSE IF m % 16 = 0
                        THEN 4
                        ELSE 3
              ELSE IF m % 2 = 0
                   THEN IF m % 4 = 0
                        THEN 2
                        ELSE 1
                   ELSE 0

NaN == [k |-> "nan", m |-> 0, e |-> 0]
Inf(sign) == [k |-> "inf", m |-> sign, e |-> 0]

\* m * 2^e with the tz trailing zero bits of m moved into the exponent.
FinShifted(m, e, tz) == [k |-> "fin", m |-> m \div Pow2(tz), e |-> e + tz]

\* The finite value m * 2^e in canonical form (m odd or zero).
Fin(m, e) ==
    IF m = 0 THEN [k |-> "fin", m |-> 0, e |-> 0]
    ELSE FinShifted(m, e, TrailingZeros(m))

\* Smallest exponent of an f32 unit in the last place (subnormals), and one
\* more than the exponent of the largest finite f32's leading bit.
F32_MIN_EXP == 0 - 149
F32_MAX_BITS == 128
F32_MANT_BITS == 24

\* The f32 of sign * q * 2^e for a mantissa q of at most 25 bits: infinite
\* when it overflows.
Rounded(sign, q, e) ==
    IF BitLen(q) + e > F32_MAX_BITS THEN Inf(sign) ELSE Fin(sign * q, e)

\* The quotient q of the mantissa by 2^shift, rounded to nearest, ties to even:
\* r is the remainder and half is 2^(shift-1).
RoundedUp(q, r, half, sticky) ==
    IF r > half \/ (r = half /\ (sticky \/ q % 2 = 1)) THEN q + 1 ELSE q

\* F32Round when shift low bits of the mantissa have to go.
RoundedBy(sign, mag, e, sticky, shift) ==
    IF shift <= 0 THEN Rounded(sign, mag, e)
    ELSE IF shift >= 31 THEN Rounded(sign, 0, e + shift)
    ELSE Rounded(sign, RoundedUp(mag \div Pow2(shift), mag % Pow2(shift),
                                 Pow2(shift - 1), sticky),
                 e + shift)

\* Round the exact value sign * (mag + f) * 2^e, where 0 <= f < 1 and f > 0
\* exactly when sticky, to the nearest f32, ties to even.
F32Round(sign, mag, e, sticky) ==
    RoundedBy(sign, mag, e, sticky, Max(BitLen(mag) - F32_MANT_BITS, F32_MIN_EXP - e))

\* Position of the leading bit of a finite non-zero f32: |v| < 2^Top(v).
Top(v) == v.e + BitLen(Abs(v.m))

\* floor(m * 2^(e - scale)) for a finite f32, when it fits the integers.
Scaled(v, scale) ==
    IF v.e >= scale THEN v.m * Pow2(v.e - scale)
    ELSE IF scale - v.e >= 31 THEN (IF v.m < 0 THEN 0 - 1 ELSE 0)
    ELSE v.m \div Pow2(scale - v.e)

\* Whether Scaled dropped non-zero bits.
Inexact(v, scale) ==
    IF v.e >= scale THEN FALSE
    ELSE IF scale - v.e >= 31 THEN v.m # 0
    ELSE v.m % Pow2(scale - v.e) # 0

\* The rounded sum s * 2^scale, s being the sum of the aligned operands
\* (rounded down when sticky).
AddRounded(s, scale, sticky) ==
    F32Round(IF s >= 0 THEN 1 ELSE 0 - 1,
             IF s >= 0 THEN s ELSE IF sticky THEN (0 - s) - 1 ELSE 0 - s,
             scale, sticky)

\* The sum of two finite non-zero operands aligned at 2^scale.
AddAligned(a, b, scale) ==
    AddRounded(Scaled(a, scale) + Scaled(b, scale), scale,
               Inexact(a, scale) \/ Inexact(b, scale))

\* a + b, IEEE 754 round-to-nearest-even.  The operands are aligned at 28 bits
\* below the larger leading bit; what falls below is kept as a sticky bit.
F32Add(a, b) ==
    IF a.k = "nan" \/ b.k = "nan" THEN NaN
    ELSE IF a.k = "inf" /\ b.k = "inf" THEN (IF a.m = b.m THEN a ELSE NaN)
    ELSE IF a.k = "inf" THEN a
    ELSE IF b.k = "inf" THEN b
    ELSE IF a.m = 0 THEN b
    ELSE IF b.m = 0 THEN a
    ELSE AddAligned(a, b, Max(Min(a.e, b.e), Max(Top(a), Top(b)) - 28))

\* -a
F32Neg(a) == IF a.k = "nan" THEN a ELSE [a EXCEPT !.m = 0 - a.m]

\* a - b
F32Sub(a, b) == F32Add(a, F32Neg(b))

\* a * 2^n (n = -1 is `* 0.5` and `/ 2.0`): exact but for subnormal results.
F32Scale2(a, n) ==
    IF a.k # "fin" \/ a.m = 0 THEN a
    ELSE F32Round(Sign(a.m), Abs(a.m), a.e + n, FALSE)

\* The rounded product (hi * 2^24 + lo) * 2^e, hi having n bits.
MulRounded(sign, hi, lo, e, n) ==
    IF n <= 4 THEN F32Round(sign, hi * Pow2(24) + lo, e, FALSE)
    ELSE F32Round(sign, hi * Pow2(28 - n) + lo \div Pow2(n - 4),
                  e + (n - 4), lo % Pow2(n - 4) # 0)

\* The product as two 24-bit halves: high is its part above 2^24 short of the
\* carry out of low.
MulHalves(sign, high, low, e) ==
    MulRounded(sign, high + low \div Pow2(24), low % Pow2(24), e,
               BitLen(high + low \div Pow2(24)))

\* The product from the products of the 12-bit pieces of the mantissas.
MulPieces(sign, hh, mid, ll, e) ==
    MulHalves(sign, hh + mid \div Pow2(12), ll + (mid % Pow2(12)) * Pow2(12), e)

\* The product of the mantissas ma and mb.
MulMantissas(sign, ma, mb, e) ==
    MulPieces(sign, (ma \div Pow2(12)) * (mb \div Pow2(12)),
              (ma \div Pow2(12)) * (mb % Pow2(12)) + (ma % Pow2(12)) * (mb \div Pow2(12)),
              (ma % Pow2(12)) * (mb % Pow2(12)), e)

\* a * b, IEEE 754 round-to-nearest-even.  The 48-bit product of the two
\* mantissas is formed in two 24-bit halves from 12-bit pieces; its leading
\* 28 bits are rounded, what falls below is kept as a sticky bit.
F32Mul(a, b) ==
    IF a.k = "nan" \/ b.k = "nan" THEN NaN
    ELSE IF a.k = "inf" \/ b.k = "inf"
         THEN (IF a.m = 0 \/ b.m = 0 THEN NaN ELSE Inf(Sign(a.m) * Sign(b.m)))
    ELSE IF a.m = 0 \/ b.m = 0 THEN Fin(0, 0)
    ELSE MulMantissas(Sign(a.m) * Sign(b.m), Abs(a.m), Abs(b.m), a.e + b.e)

\* Long division, s bits at a time: quotient bits are appended to q until it
\* has 27 of them or the remainder r is zero; k counts the bits appended.
RECURSIVE DivBits(_, _, _, _)
DivStep(q, r, d, k, s) ==
    DivBits(q * Pow2(s) + (r * Pow2(s)) \div d, (r * Pow2(s)) % d, d, k + s)

DivBits(q, r, d, k) ==
    IF r = 0 \/ BitLen(q) >= 27 THEN [q |-> q, r |-> r, k |-> k]
    ELSE DivStep(q, r, d, k, Min(30 - BitLen(d), 27 - BitLen(q)))

\* The rounded quotient from the result d of the long division.
DivRounded(sign, d, e) == F32Round(sign, d.q, e - d.k, d.r # 0)

\* a / b, IEEE 754 round-to-nearest-even.  A zero divisor is taken as +0.0.
F32Div(a, b) ==
    IF a.k = "nan" \/ b.k = "nan" THEN NaN
    ELSE IF a.k = "inf"
         THEN (IF b.k = "inf" THEN NaN
               ELSE Inf(a.m * (IF b.m < 0 THEN 0 - 1 ELSE 1)))
    ELSE IF b.k = "inf" THEN Fin(0, 0)
    ELSE IF b.m = 0 THEN (IF a.m = 0 THEN NaN ELSE Inf(Sign(a.m)))
    ELSE IF a.m = 0 THEN Fin(0, 0)
    ELSE DivRounded(Sign(a.m) * Sign(b.m),
                    DivBits(Abs(a.m) \div Abs(b.m), Abs(a.m) % Abs(b.m), Abs(b.m), 0),
                    a.e - b.e)

\* Square root, one octal digit of the root at a time: six bits of the
\* radicand src are consumed per step (np groups are left), then zero groups,
\* until the root has 25 bits or the remainder is zero; k counts the zero
\* groups.
RECURSIVE SqrtDigits(_, _, _, _, _)
SqrtDigits(root, rem, src, np, k) ==
    IF np = 0 /\ (rem = 0 \/ BitLen(root) >= 25)
    THEN [root |-> root, rem |-> rem, k |-> k]
    ELSE LET group == IF np > 0 THEN (src \div Pow2(6 * (np - 1))) % 64 ELSE 0
             r6 == rem * 64 + group
             d == Cardinality({t \in 1..7 : t * (16 * root + t) <= r6})
         IN  SqrtDigits(8 * root + d, r6 - d * (16 * root + d), src,
                        IF np > 0 THEN np - 1 ELSE 0, IF np > 0 THEN k ELSE k + 1)

\* f32::sqrt, correctly rounded.
sqrt(a) ==
    IF a.k = "nan" THEN NaN
    ELSE IF a.m < 0 THEN NaN
    ELSE IF a.k = "inf" \/ a.m = 0 THEN a
    ELSE LET odd == a.e % 2 = 1
             m2 == IF odd THEN 2 * a.m ELSE a.m
             e2 == IF odd THEN a.e - 1 ELSE a.e
             d == SqrtDigits(0, 0, m2, 5, 0)
         IN  F32Round(1, d.root, (e2 \div 2) - 3 * d.k, d.rem # 0)

\* f32::recip
recip(a) == F32Div(Fin(1, 0), a)

\* f32::is_finite
is_finite(a) == a.k = "fin"

\* a < b (false when either is a NaN)
F32Lt(a, b) ==
    IF a.k = "nan" \/ b.k = "nan" THEN FALSE
    ELSE IF a.k = "inf" THEN a.m < 0 /\ ~(b.k = "inf" /\ b.m < 0)
    ELSE IF b.k = "inf" THEN b.m > 0
    ELSE IF Sign(a.m) # Sign(b.m) THEN Sign(a.m) < Sign(b.m)
    ELSE IF a.m = 0 THEN FALSE
    ELSE IF Top(a) # Top(b)
         THEN (IF a.m > 0 THEN Top(a) < Top(b) ELSE Top(a) > Top(b))
         ELSE LET scale == Min(a.e, b.e)
              IN  Scaled(a, scale) < Scaled(b, scale)

F32Gt(a, b) == F32Lt(b, a)
F32Le(a, b) == a.k # "nan" /\ b.k # "nan" /\ ~F32Lt(b, a)

\* f32::max and f32::min: when one argument is a NaN the other is returned.
F32Max(a, b) ==
    IF a.k = "nan" THEN b ELSE IF b.k = "nan" THEN a
    ELSE IF F32Lt(a, b) THEN b ELSE a

F32Min(a, b) ==
    IF a.k = "nan" THEN b ELSE IF b.k = "nan" THEN a
    ELSE IF F32Lt(b, a) THEN b ELSE a

\* f32::round: to the nearest integer, halves away from zero.
round(a) ==
    IF a.k # "fin" \/ a.e >= 0 THEN a
    ELSE IF 0 - a.e > F32_MANT_BITS + 1 THEN Fin(0, 0)
    ELSE LET d == Pow2(0 - a.e)
             q == Abs(a.m) \div d
             r == Abs(a.m) % d
         IN  Fin(Sign(a.m) * (IF 2 * r >= d THEN q + 1 ELSE q), 0)

\* f32::floor and f32::ceil
floor(a) ==
    IF a.k # "fin" \/ a.e >= 0 THEN a
    ELSE IF 0 - a.e > F32_MANT_BITS + 1 THEN Fin(IF a.m < 0 THEN 0 - 1 ELSE 0, 0)
    ELSE Fin(a.m \div Pow2(0 - a.e), 0)

ceil(a) == F32Neg(floor(F32Neg(a)))

\* ------------------------------------------------------- isize (64-bit) values
\* An isize is the record [neg, mag]: its sign and the little-endian base-256
\* digits of its magnitude, so that the 64-bit limits are the code's.
ISIZE_MAX == [neg |-> FALSE, mag |-> [i \in 1..USIZE_BYTES |-> IF i = USIZE_BYTES THEN 127 ELSE 255]]
ISIZE_MIN == [neg |-> TRUE, mag |-> [i \in 1..USIZE_BYTES |-> IF i = USIZE_BYTES THEN 128 ELSE 0]]

IsizeOf(n) == [neg |-> n < 0, mag |-> UsizeOf(Abs(n))]

IsizeIsSmall(v) == UsizeIsSmall(v.mag)

\* The value of an isize as a model integer; an isize that is not
\* IsizeIsSmall is kept as its sign and digits, whole.
IsizeToInt(v) ==
    IF IsizeIsSmall(v)
    THEN (IF v.neg THEN 0 - UsizeToInt(v.mag) ELSE UsizeToInt(v.mag))
    ELSE v

\* Byte i of mag * 2^e.
ShiftedByte(mag, e, i) ==
    LET o == 8 * (i - 1) - e
    IN  IF o >= 31 THEN 0
        ELSE IF o >= 0 THEN (mag \div Pow2(o)) % 256
        ELSE IF o > 0 - 8 THEN (mag * Pow2(0 - o)) % 256
        ELSE 0

\* `v as isize` for an f32: truncation toward zero, saturating at the limits
\* of isize, 0 for a NaN.
F32ToIsize(v) ==
    IF v.k = "nan" THEN IsizeOf(0)
    ELSE IF v.k = "inf" THEN (IF v.m > 0 THEN ISIZE_MAX ELSE ISIZE_MIN)
    ELSE IF v.e < 0
         THEN IsizeOf(Sign(v.m) *
                      (IF 0 - v.e >= 31 THEN 0 ELSE Abs(v.m) \div Pow2(0 - v.e)))
    ELSE IF Top(v) > 8 * USIZE_BYTES - 1
         THEN (IF v.m > 0 THEN ISIZE_MAX ELSE ISIZE_MIN)
    ELSE [neg |-> v.m < 0,
          mag |-> [i \in 1..USIZE_BYTES |-> ShiftedByte(Abs(v.m), v.e, i)]]

\* floor(mag / 2^s) of a digit string, for a result that fits the integers.
RECURSIVE DigitsShiftedRight(_, _, _)
DigitsShiftedRight(d, s, i) ==
    IF i > USIZE_BYTES THEN 0
    ELSE LET o == 8 * (i - 1)
         IN  (IF d[i] = 0 THEN 0
              ELSE IF o >= s THEN d[i] * Pow2(o - s)
              ELSE IF o + 8 > s THEN d[i] \div Pow2(s - o)
              ELSE 0)
             + DigitsShiftedRight(d, s, i + 1)

\* Whether a bit below position s of the digit string is set.
DigitsLowBits(d, s) ==
    \E i \in 1..USIZE_BYTES :
        LET o == 8 * (i - 1)
        IN  IF o + 8 <= s THEN d[i] # 0
            ELSE IF o < s THEN d[i] % Pow2(s - o) # 0
            ELSE FALSE

\* `v as f32` for an isize: the nearest f32, ties to even.
IsizeToF32(v) ==
    LET n == UsizeBits(v.mag, USIZE_BYTES)
        s == Max(n - 28, 0)
        sign == IF v.neg THEN 0 - 1 ELSE 1
    IN  F32Round(sign, DigitsShiftedRight(v.mag, s, 1), s, DigitsLowBits(v.mag, s))

\* ------------------------------------------- isize and i64 at their width
\* isize and i64 are both 64 bits wide on the targets of the crate.  The
\* arithmetic of the rasterizers is modelled on the records [neg, mag]
\* wherever a value may leave the model's own integers.  A result is first
\* computed exactly, on digit strings of any length, and then brought back to
\* 64 bits: overflowing_add, overflowing_sub and overflowing_mul return the
\* wrapped value v and the flag o that tells an overflow, as the methods of
\* that name do in Rust.
\*
\* OverflowChecks is the build profile: TRUE is the profile of `cargo build`
\* and `cargo test` (overflow-checks and debug assertions on), under which an
\* overflowing `+`, `-` or `*` and a failed debug_assert! panic; FALSE is the
\* profile of `cargo build --release`, under which the result wraps and a
\* debug_assert! is not compiled.
OverflowChecks == TRUE

DigitsPad(d, n) == [i \in 1..n |-> IF i <= Len(d) THEN d[i] ELSE 0]

DigitsIsZero(d) == \A i \in 1..Len(d) : d[i] = 0

\* The order of two digit strings of one length: -1, 0 or 1.
RECURSIVE DigitsCmp(_, _, _)
DigitsCmp(a, b, i) ==
    IF i = 0 THEN 0
    ELSE IF a[i] < b[i] THEN 0 - 1
    ELSE IF a[i] > b[i] THEN 1
    ELSE DigitsCmp(a, b, i - 1)

\* a + b + carry from digit i on: one digit more than a and b have.
RECURSIVE DigitsAdd(_, _, _, _)
DigitsAdd(a, b, i, carry) ==
    IF i > Len(a) THEN <<carry>>
    ELSE LET t == a[i] + b[i] + carry
         IN  <<t % 256>> \o DigitsAdd(a, b, i + 1, t \div 256)

\* a - b - borrow from digit i on, for a >= b.
RECURSIVE DigitsSub(_, _, _, _)
DigitsSub(a, b, i, borrow) ==
    IF i > Len(a) THEN <<>>
    ELSE LET t == a[i] - b[i] - borrow
         IN  IF t < 0 THEN <<t + 256>> \o DigitsSub(a, b, i + 1, 1)
             ELSE <<t>> \o DigitsSub(a, b, i + 1, 0)

\* An exact integer: a sign and a magnitude of any length.
BigOf(v, n) == [neg |-> v.neg, mag |-> DigitsPad(v.mag, n)]

BigAdd(a, b) ==
    LET n == Max(Len(a.mag), Len(b.mag))
        x == DigitsPad(a.mag, n)
        y == DigitsPad(b.mag, n)
    IN  IF a.neg = b.neg THEN [neg |-> a.neg, mag |-> DigitsAdd(x, y, 1, 0)]
        ELSE IF DigitsCmp(x, y, n) >= 0
             THEN [neg |-> a.neg, mag |-> DigitsSub(x, y, 1, 0)]
             ELSE [neg |-> b.neg, mag |-> DigitsSub(y, x, 1, 0)]

BigNeg(a) == [neg |-> ~a.neg, mag |-> a.mag]

BigMul(a, b) == [neg |-> a.neg # b.neg, mag |-> MulDigits(a.mag, b.mag, 0, 0)]

\* 2^64 - d for the 8 digits d of a number that is not zero.
DigitsNegate(d) ==
    SubSeq(DigitsAdd([i \in 1..USIZE_BYTES |-> 255 - d[i]],
                     [i \in 1..USIZE_BYTES |-> 0], 1, 1), 1, USIZE_BYTES)

\* The 64-bit two's complement pattern u read as an i64.
I64OfBits(u) ==
    IF u[USIZE_BYTES] >= 128 THEN [neg |-> TRUE, mag |-> DigitsNegate(u)]
    ELSE [neg |-> FALSE, mag |-> u]

\* An exact integer brought to 64 bits: v is the value modulo 2^64 as an
\* i64, o tells that the exact integer is not an i64.
Wrap64(a) ==
    LET low == DigitsPad(a.mag, USIZE_BYTES)
        high == \E i \in (USIZE_BYTES + 1)..Len(a.mag) : a.mag[i] # 0
        zero == DigitsIsZero(low)
        fits == ~high /\ (low[USIZE_BYTES] < 128
                          \/ (a.neg /\ low = ISIZE_MIN.mag))
    IN  [v |-> IF zero THEN [neg |-> FALSE, mag |-> low]
               ELSE IF a.neg THEN I64OfBits(DigitsNegate(low))
               ELSE I64OfBits(low),
         o |-> ~fits]

\* i64::overflowing_add, overflowing_sub, overflowing_mul
overflowing_add(a, b) == Wrap64(BigAdd(a, b))
overflowing_sub(a, b) == Wrap64(BigAdd(a, BigNeg(b)))
overflowing_mul(a, b) == Wrap64(BigMul(a, b))

\* x << 16 on an i64: the bits shifted out are lost in every profile.
Shl16(a) == Wrap64([neg |-> a.neg, mag |-> <<0, 0>> \o a.mag]).v

\* x >> 16 on an i64: the arithmetic shift, which rounds toward minus
\* infinity.
Shr16(a) ==
    LET q == [i \in 1..USIZE_BYTES |->
                 IF i + 2 <= USIZE_BYTES THEN a.mag[i + 2] ELSE 0]
        up == a.neg /\ (a.mag[1] # 0 \/ a.mag[2] # 0)
        m == IF up
             THEN SubSeq(DigitsAdd(q, [i \in 1..USIZE_BYTES |-> 0], 1, 1),
                         1, USIZE_BYTES)
             ELSE q
    IN  [neg |-> a.neg /\ ~DigitsIsZero(m), mag |-> m]

\* The sign of an isize: -1, 0 or 1.
IsizeSign(a) == IF DigitsIsZero(a.mag) THEN 0 ELSE IF a.neg THEN 0 - 1 ELSE 1

\* The order of two isize values: -1, 0 or 1.
IsizeCmp(a, b) ==
    LET sa == IsizeSign(a)
        sb == IsizeSign(b)
    IN  IF sa # sb THEN (IF sa < sb THEN 0 - 1 ELSE 1)
        ELSE IF sa >= 0 THEN DigitsCmp(a.mag, b.mag, USIZE_BYTES)
        ELSE DigitsCmp(b.mag, a.mag, USIZE_BYTES)

IsizeLt(a, b) == IsizeCmp(a, b) < 0
IsizeLe(a, b) == IsizeCmp(a, b) <= 0
IsizeEq(a, b) == IsizeCmp(a, b) = 0
IsizeMax(a, b) == IF IsizeLt(a, b) THEN b ELSE a
IsizeMin(a, b) == IF IsizeLt(b, a) THEN b ELSE a

\* Bit k (0-based) of a digit string.
DigitsBit(d, k) == (d[(k \div 8) + 1] \div Pow2(k % 8)) % 2

\* Long division of the magnitudes n by d: st holds the quotient q and the
\* remainder r so far (r stays below d).  BitBroughtDown brings down bit k of n.
BitBroughtDown(n, d, k, st) ==
    LET r2 == SubSeq(DigitsAdd(st.r, st.r, 1, DigitsBit(n, k)), 1, USIZE_BYTES)
    IN  IF DigitsCmp(r2, d, USIZE_BYTES) >= 0
        THEN [q |-> [st.q EXCEPT ![(k \div 8) + 1] = @ + Pow2(k % 8)],
              r |-> DigitsSub(r2, d, 1, 0)]
        ELSE [q |-> st.q, r |-> r2]

\* The bits k down to lo of n brought down, and the digits i down to 1 (each
\* its eight bits, the highest first).
RECURSIVE BitsBroughtDown(_, _, _, _, _)
BitsBroughtDown(n, d, k, lo, st) ==
    IF k < lo \/ st.r = d THEN st
    ELSE BitsBroughtDown(n, d, k - 1, lo, BitBroughtDown(n, d, k, st))

RECURSIVE DigitsDivLoop(_, _, _, _)
DigitsDivLoop(n, d, i, st) ==
    IF i < 1 \/ st.r = d THEN st.q
    ELSE DigitsDivLoop(n, d, i - 1, BitsBroughtDown(n, d, 8 * i - 1, 8 * (i - 1), st))

\* a / b on i64: the quotient truncated toward zero.  Defined for b # 0 and
\* not (a = i64::MIN and b = -1), the two cases in which `/` panics in every
\* profile.
DivPanics(a, b) ==
    DigitsIsZero(b.mag) \/ (a = ISIZE_MIN /\ b.neg /\ b.mag = IsizeOf(1).mag)

I64Div(a, b) ==
    LET zeros == [i \in 1..USIZE_BYTES |-> 0]
        q == DigitsDivLoop(a.mag, b.mag, USIZE_BYTES, [q |-> zeros, r |-> zeros])
    IN  [neg |-> (a.neg # b.neg) /\ ~DigitsIsZero(q), mag |-> q]

\* Whether the operation that returned r went through: it did not overflow,
\* or the profile lets an overflow wrap.
Checked(r) == ~(OverflowChecks /\ r.o)

\* A further `+`, `-` or `*` on the result r of an earlier one: the flag
\* tells that either overflowed.
Pure(v) == [v |-> v, o |-> FALSE]
Merge(o, n) == [v |-> n.v, o |-> o \/ n.o]
OAdd(r, b) == Merge(r.o, overflowing_add(r.v, b))
OSub(r, b) == Merge(r.o, overflowing_sub(r.v, b))
OMul(r, b) == Merge(r.o, overflowing_mul(r.v, b))

\* `isize::MIN as f32` and `isize::MAX as f32`
ISIZE_MIN_AS_F32 == IsizeToF32(ISIZE_MIN)
ISIZE_MAX_AS_F32 == IsizeToF32(ISIZE_MAX)

\* `n as f32` for a usize held as a model integer.
UsizeToF32(n) == F32Round(1, n, 0, FALSE)

\* -------------------------------------------------------------------- Stage
PanicStage ==
    [width |-> 0, height |-> 0, framebuf |-> <<>>,
     panicked |-> TRUE, aborted |-> FALSE, large |-> FALSE]

\* handle_alloc_error: the allocator refused the request and the process is
\* aborted (no unwinding, no Stage).
AbortStage ==
    [width |-> 0, height |-> 0, framebuf |-> <<>>,
     panicked |-> FALSE, aborted |-> TRUE, large |-> FALSE]

Panic(S) == [S EXCEPT !.panicked = TRUE]

\* vec![[0, 0, 0, 0]; length]: a Vec of more than isize::MAX bytes cannot be
\* asked for, and the request panics ("capacity overflow").  Each pixel is 4
\* bytes: the limit is reached at length = 2^61.
CapacityOverflows(length) == length[USIZE_BYTES] >= 32

\* usize values below 2^61 (a length, an index, a count of pixels): sums,
\* differences a - b for a >= b, and the order.
UsizeAdd(a, b) == SubSeq(DigitsAdd(a, b, 1, 0), 1, USIZE_BYTES)
UsizeSub(a, b) == DigitsSub(a, b, 1, 0)
UsizeLt(a, b) == DigitsCmp(a, b, USIZE_BYTES) < 0
UsizeMul(a, b) == SubSeq(MulDigits(a, b, 0, 0), 1, USIZE_BYTES)

\* A Vec of 2^31 pixels or more is held as its runs: a sequence of records
\* [n, rgba], n pixels (a usize, not zero) of one value, neighbouring runs of
\* different values.  RunsOf is the Vec that holds n times one value.
RunsOf(n, value) == IF UsizeIsZero(n) THEN <<>> ELSE <<[n |-> n, rgba |-> value]>>

\* Stage::new on usize digit arguments.  allocated is the reply of the
\* allocator to the request vec! makes for the pixels: a request that can be
\* made is granted or refused, whatever its size, and a refusal aborts the
\* process.  A stage of fewer than 2^31 pixels has model integers for its
\* dimensions and a sequence for its pixels; a larger one keeps its
\* dimensions as usize digits and its pixels as runs.
new(w, h, allocated) ==
    IF ~(~UsizeIsZero(w) /\ ~UsizeIsZero(h)) THEN PanicStage
    ELSE LET length == checked_mul(w, h)
         IN  IF ~IsSome(length) THEN PanicStage
             ELSE IF CapacityOverflows(Unwrap(length)) THEN PanicStage
             ELSE IF ~allocated THEN AbortStage
             ELSE IF UsizeIsSmall(Unwrap(length))
             THEN [width |-> UsizeToInt(w),
                   height |-> UsizeToInt(h),
                   framebuf |-> [i \in 1..UsizeToInt(Unwrap(length)) |-> <<0, 0, 0, 0>>],
                   panicked |-> FALSE, aborted |-> FALSE, large |-> FALSE]
             ELSE [width |-> w, height |-> h,
                   framebuf |-> RunsOf(Unwrap(length), <<0, 0, 0, 0>>),
                   panicked |-> FALSE, aborted |-> FALSE, large |-> TRUE]

\* Stage::len
len(S) == Len(S.framebuf)

\* Stage::index (0-based Vec index).
index(S, x, y) == y * S.width + x

\* Vec indexing self.framebuf[i]: in range, or a panic.
InRange(S, i) == 0 <= i /\ i < Len(S.framebuf)

\* Slip: a colour that is not opaque is averaged with the pixel it lands on.
StoreBlended(S, i, color) ==
    IF InRange(S, i)
    THEN [S EXCEPT !.framebuf[i + 1] =
             IF color[4] = 255 THEN color
             ELSE [c \in 1..4 |-> (color[c] + S.framebuf[i + 1][c]) \div 2]]
    ELSE Panic(S)

\* self.framebuf[i] = color
Store(S, i, color) ==
    IF InRange(S, i) THEN [S EXCEPT !.framebuf[i + 1] = color] ELSE Panic(S)

\* Stage::get_pixel; the second component tells a panic (index out of range).
get_pixel(S, x, y) ==
    IF x >= S.width \/ y >= S.height THEN [ret |-> None, panicked |-> FALSE]
    ELSE LET idx == index(S, x, y)
         IN  IF InRange(S, idx)
             THEN [ret |-> Some(S.framebuf[idx + 1]), panicked |-> FALSE]
             ELSE [ret |-> None, panicked |-> TRUE]

\* Slip: only the first row is filled.
clear_first_row(S, color) ==
    [S EXCEPT !.framebuf = [i \in 1..Len(S.framebuf) |->
                               IF i <= S.width THEN rgba(color) ELSE S.framebuf[i]]]

\* Stage::clear
clear(S, color) ==
    [S EXCEPT !.framebuf = [i \in 1..Len(S.framebuf) |-> rgba(color)]]

\* Slip: the coordinates are swapped in the index.
set_pixel_swapped(S, x, y, color) ==
    IF x >= S.width \/ y >= S.height THEN S
    ELSE Store(S, index(S, y, x), rgba(color))

\* Stage::set_pixel (x, y are usize: never negative)
set_pixel(S, x, y, color) ==
    IF x >= S.width \/ y >= S.height THEN S
    ELSE Store(S, index(S, x, y), rgba(color))

\* Stage::pixels_mut: the framebuffer as a slice the caller may write.
pixels_mut(S) == S.framebuf

\* A caller's writes through the slice of pixels_mut: px is the slice as the
\* caller leaves it, as long as it was.
WriteThrough(S, px) ==
    IF Len(px) = Len(pixels_mut(S)) THEN [S EXCEPT !.framebuf = px] ELSE S

\* Slip: no test for negative coordinates before the index is computed.
plot_unsigned(S, x, y, color) ==
    IF S.panicked THEN S
    ELSE IF x < S.width /\ y < S.height
         THEN Store(S, y * S.width + x, rgba(color))
         ELSE S

\* Stage::plot (x, y are isize)
plot(S, x, y, color) ==
    IF S.panicked THEN S
    ELSE IF x < 0 \/ y < 0 THEN S
    ELSE IF x < S.width /\ y < S.height
         THEN Store(S, y * S.width + x, rgba(color))
         ELSE S

\* self.framebuf[lo .. hi].fill(color): a slice of the Vec, or a panic.
FillSlice(S, lo, hi, color) ==
    IF lo > hi \/ hi > Len(S.framebuf) THEN Panic(S)
    ELSE [S EXCEPT !.framebuf =
             [i \in 1..Len(S.framebuf) |->
                 IF lo <= i - 1 /\ i - 1 < hi THEN color ELSE S.framebuf[i]]]

\* Slip: the right end is not clamped to the row.
fill_span_unclamped(S, y, x0, x1, color) ==
    IF S.panicked THEN S
    ELSE IF y < 0 THEN S
    ELSE IF y >= S.height THEN S
    ELSE IF x0 > x1 THEN S
    ELSE IF x1 < 0 \/ x0 >= S.width THEN S
    ELSE FillSlice(S, y * S.width + Max(x0, 0), y * S.width + x1 + 1, rgba(color))

\* Slip: the ends are put in order instead of a reversed span being empty.
fill_span_sorted(S, y, x0, x1, color) ==
    IF S.panicked THEN S
    ELSE IF y < 0 THEN S
    ELSE IF y >= S.height THEN S
    ELSE IF Max(x0, x1) < 0 \/ Min(x0, x1) >= S.width THEN S
    ELSE LET a == Max(Min(x0, x1), 0)
             b == Min(Max(x0, x1), S.width - 1)
         IN  IF a > b THEN S
             ELSE LET row == y * S.width
                  IN  FillSlice(S, row + a, row + b + 1, rgba(color))

\* Stage::fill_span
fill_span(S, y, x0, x1, color) ==
    IF S.panicked THEN S
    ELSE IF y < 0 THEN S
    ELSE IF y >= S.height THEN S
    ELSE IF x0 > x1 THEN S
    ELSE IF x1 < 0 \/ x0 >= S.width THEN S
    ELSE LET a == Max(x0, 0)
             b == Min(x1, S.width - 1)
         IN  IF a > b THEN S
             ELSE LET row == y * S.width
                  IN  FillSlice(S, row + a, row + b + 1, rgba(color))

\* Stage::fill_span on coordinates held at their full width.  Past the early
\* returns the clamped ends lie on the stage.
fill_span_wide(S, y, x0, x1, color) ==
    IF S.panicked THEN S
    ELSE IF IsizeSign(y) < 0 THEN S
    ELSE IF ~IsizeLt(y, IsizeOf(S.height)) THEN S
    ELSE IF IsizeLt(x1, x0) THEN S
    ELSE IF IsizeSign(x1) < 0 \/ ~IsizeLt(x0, IsizeOf(S.width)) THEN S
    ELSE fill_span(S, IsizeToInt(y),
                   IsizeToInt(IsizeMax(x0, IsizeOf(0))),
                   IsizeToInt(IsizeMin(x1, IsizeOf(S.width - 1))), color)

\* ------------------------------------------- a stage of 2^31 pixels or more
\* The operations of Stage on a large stage: width and height are usize
\* digits, unsigned coordinates are usize digits, signed ones isize records.
\* The number of pixels the runs hold.
RECURSIVE RunsLen(_)
RunsLen(runs) ==
    IF runs = <<>> THEN UsizeOf(0) ELSE UsizeAdd(runs[1].n, RunsLen(Tail(runs)))

\* The pixel at Vec index i, for i below the length.
RECURSIVE RunsAt(_, _)
RunsAt(runs, i) ==
    IF UsizeLt(i, runs[1].n) THEN runs[1].rgba
    ELSE RunsAt(Tail(runs), UsizeSub(i, runs[1].n))

\* The first n pixels, and the pixels from index n on, for n up to the length.
RECURSIVE RunsTake(_, _)
RunsTake(runs, n) ==
    IF UsizeIsZero(n) THEN <<>>
    ELSE IF UsizeLt(n, runs[1].n) THEN <<[n |-> n, rgba |-> runs[1].rgba]>>
    ELSE <<runs[1]>> \o RunsTake(Tail(runs), UsizeSub(n, runs[1].n))

RECURSIVE RunsDrop(_, _)
RunsDrop(runs, n) ==
    IF UsizeIsZero(n) THEN runs
    ELSE IF UsizeLt(n, runs[1].n)
         THEN <<[n |-> UsizeSub(runs[1].n, n), rgba |-> runs[1].rgba]>> \o Tail(runs)
    ELSE RunsDrop(Tail(runs), UsizeSub(n, runs[1].n))

\* Neighbouring runs of one value made one run.
RECURSIVE RunsJoined(_)
RunsJoined(runs) ==
    IF Len(runs) < 2 THEN runs
    ELSE IF runs[1].rgba = runs[2].rgba
         THEN RunsJoined(<<[n |-> UsizeAdd(runs[1].n, runs[2].n), rgba |-> runs[1].rgba]>>
                             \o SubSeq(runs, 3, Len(runs)))
    ELSE <<runs[1]>> \o RunsJoined(Tail(runs))

\* Stage::len
len_large(S) == RunsLen(S.framebuf)

\* Stage::index: y * self.width + x, below the length for x < width and
\* y < height.
index_large(S, x, y) == UsizeAdd(UsizeMul(y, S.width), x)

\* self.framebuf[lo .. hi].fill(color): a slice of the Vec, or a panic.
FillSliceLarge(S, lo, hi, color) ==
    IF UsizeLt(hi, lo) \/ UsizeLt(len_large(S), hi) THEN Panic(S)
    ELSE [S EXCEPT !.framebuf =
             RunsJoined(RunsTake(S.framebuf, lo) \o RunsOf(UsizeSub(hi, lo), color)
                            \o RunsDrop(S.framebuf, hi))]

\* self.framebuf[i] = color
StoreLarge(S, i, color) ==
    IF UsizeLt(i, len_large(S))
    THEN FillSliceLarge(S, i, UsizeAdd(i, UsizeOf(1)), color)
    ELSE Panic(S)

\* Stage::get_pixel
get_pixel_large(S, x, y) ==
    IF ~UsizeLt(x, S.width) \/ ~UsizeLt(y, S.height) THEN [ret |-> None, panicked |-> FALSE]
    ELSE LET idx == index_large(S, x, y)
         IN  IF UsizeLt(idx, len_large(S))
             THEN [ret |-> Some(RunsAt(S.framebuf, idx)), panicked |-> FALSE]
             ELSE [ret |-> None, panicked |-> TRUE]

\* Stage::clear
clear_large(S, color) ==
    [S EXCEPT !.framebuf = RunsOf(len_large(S), rgba(color))]

\* Stage::set_pixel
set_pixel_large(S, x, y, color) ==
    IF ~UsizeLt(x, S.width) \/ ~UsizeLt(y, S.height) THEN S
    ELSE StoreLarge(S, index_large(S, x, y), rgba(color))

\* Stage::plot
plot_large(S, x, y, color) ==
    IF S.panicked THEN S
    ELSE IF IsizeSign(x) < 0 \/ IsizeSign(y) < 0 THEN S
    ELSE IF UsizeLt(x.mag, S.width) /\ UsizeLt(y.mag, S.height)
         THEN StoreLarge(S, index_large(S, x.mag, y.mag), rgba(color))
         ELSE S

\* Stage::fill_span
fill_span_large(S, y, x0, x1, color) ==
    IF S.panicked THEN S
    ELSE IF IsizeSign(y) < 0 THEN S
    ELSE IF ~UsizeLt(y.mag, S.height) THEN S
    ELSE IF IsizeLt(x1, x0) THEN S
    ELSE LET w == [neg |-> FALSE, mag |-> S.width]
         IN  IF IsizeSign(x1) < 0 \/ ~IsizeLt(x0, w) THEN S
             ELSE LET a == IsizeMax(x0, IsizeOf(0))
                      b == IsizeMin(x1, overflowing_sub(w, IsizeOf(1)).v)
                  IN  IF IsizeLt(b, a) THEN S
                      ELSE LET row == UsizeMul(y.mag, S.width)
                           IN  FillSliceLarge(S, UsizeAdd(row, a.mag),
                                              UsizeAdd(UsizeAdd(row, b.mag), UsizeOf(1)),
                                              rgba(color))

\* The f32 literals 1.0 and 0.0.
F32One == Fin(1, 0)
F32Zero == Fin(0, 0)

\* The range tests and the casts that end world_to_pixel: px and py are the
\* rounded sums, lo and hi are `isize::MIN as f32` and `isize::MAX as f32`.
PixelInRange(px, py, lo, hi) ==
    IF F32Lt(px, lo) \/ F32Gt(px, hi) THEN None
    ELSE IF F32Lt(py, lo) \/ F32Gt(py, hi) THEN None
    ELSE Some(<<F32ToIsize(px), F32ToIsize(py)>>)

\* `self.width as f32` and `self.height as f32`: the f32 nearest to the
\* dimension n of the stage S, ties to even.  n is a model integer, or usize
\* digits on a large stage; from 2^24 + 1 on not every n is an f32.
DimToF32(S, n) ==
    IF S.large THEN IsizeToF32([neg |-> FALSE, mag |-> n]) ELSE UsizeToF32(n)

\* Slip: the centre is taken at width/2 and height/2.
world_to_pixel_half(S, x, y) ==
    IF ~is_finite(x) \/ ~is_finite(y) THEN None
    ELSE PixelInRange(round(F32Add(x, F32Scale2(DimToF32(S, S.width), 0 - 1))),
                      round(F32Sub(F32Scale2(DimToF32(S, S.height), 0 - 1), y)),
                      ISIZE_MIN_AS_F32, ISIZE_MAX_AS_F32)

\* (n as f32 - 1.0) * 0.5 for a dimension n of the stage: center_x and
\* center_y.  The subtraction is an f32 subtraction and rounds as well.
CenterOf(S, n) == F32Scale2(F32Sub(DimToF32(S, n), F32One), 0 - 1)

\* Stage::world_to_pixel on the world point (x, y).
world_to_pixel(S, x, y) ==
    IF ~is_finite(x) \/ ~is_finite(y) THEN None
    ELSE PixelInRange(round(F32Add(x, CenterOf(S, S.width))),
                      round(F32Sub(CenterOf(S, S.height), y)),
                      ISIZE_MIN_AS_F32, ISIZE_MAX_AS_F32)

\* -------------------------------------------------------------------- Style
\* Style is [fill, stroke], each an Option.
Style_new(fill, stroke) ==
    [fill |-> IF IsSome(fill) THEN Some(Fill_new(Unwrap(fill), OPAQUE)) ELSE None,
     stroke |-> IF IsSome(stroke) THEN Some(Stroke_new(Unwrap(stroke), OPAQUE, F32One))
                ELSE None]

\* Style::fill_or_stroke_exists
fill_or_stroke_exists(style) == IsSome(style.fill) \/ IsSome(style.stroke)

\* ---------------------------------------------------------- line rasterizer
\* Integer division of Rust: the quotient is truncated toward zero.
TruncDiv(a, b) == Sign(a) * Sign(b) * (Abs(a) \div Abs(b))

\* out_code: bit 1 left, 2 right, 4 above, 8 below the stage.
out_code(x, y, xmin, ymin, xmax, ymax) ==
    (IF x < xmin THEN 1 ELSE IF x > xmax THEN 2 ELSE 0)
    + (IF y < ymin THEN 4 ELSE IF y > ymax THEN 8 ELSE 0)

HasBit(c, b) == (c \div b) % 2 = 1

\* Slip: end points that share an outside region are not rejected.
ShareNoBit(c0, c1) == FALSE

\* (c0 & c1) != 0
ShareBit(c0, c1) == \E b \in {1, 2, 4, 8} : HasBit(c0, b) /\ HasBit(c1, b)

\* The result of a clip: None, Some of the two end points, or a panic
\* (a division by zero).
ClipNone == [some |-> FALSE, panicked |-> FALSE, p0 |-> <<0, 0>>, p1 |-> <<0, 0>>]
ClipPanic == [some |-> FALSE, panicked |-> TRUE, p0 |-> <<0, 0>>, p1 |-> <<0, 0>>]
ClipSome(x0, y0, x1, y1) ==
    [some |-> TRUE, panicked |-> FALSE, p0 |-> <<x0, y0>>, p1 |-> <<x1, y1>>]

\* The loop of clip_line_to_stage.  guarded: the version of
\* primitives/line.rs, which returns None on a zero divisor; the version of
\* shapes/lines.rs divides unguarded.
RECURSIVE ClipLoop(_, _, _, _, _, _, _)
ClipLoop(x0, y0, x1, y1, xmax, ymax, guarded) ==
    LET c0 == out_code(x0, y0, 0, 0, xmax, ymax)
        c1 == out_code(x1, y1, 0, 0, xmax, ymax)
    IN  IF c0 = 0 /\ c1 = 0 THEN ClipSome(x0, y0, x1, y1)
        ELSE IF ShareBit(c0, c1) THEN ClipNone
        ELSE LET c_out == IF c0 # 0 THEN c0 ELSE c1
                 dx == x1 - x0
                 dy == y1 - y0
                 horiz == HasBit(c_out, 8) \/ HasBit(c_out, 4)
                 zero == IF horiz THEN dy = 0 ELSE dx = 0
             IN  IF zero THEN (IF guarded THEN ClipNone ELSE ClipPanic)
                 ELSE LET yi == IF HasBit(c_out, 8) THEN ymax
                                ELSE IF HasBit(c_out, 4) THEN 0
                                ELSE IF HasBit(c_out, 2)
                                     THEN y0 + TruncDiv(dy * (xmax - x0), dx)
                                     ELSE y0 + TruncDiv(dy * (0 - x0), dx)
                          xi == IF HasBit(c_out, 8)
                                THEN x0 + TruncDiv(dx * (ymax - y0), dy)
                                ELSE IF HasBit(c_out, 4)
                                     THEN x0 + TruncDiv(dx * (0 - y0), dy)
                                     ELSE IF HasBit(c_out, 2) THEN xmax ELSE 0
                      IN  IF c_out = c0
                          THEN ClipLoop(xi, yi, x1, y1, xmax, ymax, guarded)
                          ELSE ClipLoop(x0, y0, xi, yi, xmax, ymax, guarded)

\* clip_line_to_stage of primitives/line.rs
clip_line_to_stage(S, p0, p1) ==
    ClipLoop(p0[1], p0[2], p1[1], p1[2], S.width - 1, S.height - 1, TRUE)

\* clip_line_to_stage of shapes/lines.rs
clip_line_to_stage_unguarded(S, p0, p1) ==
    ClipLoop(p0[1], p0[2], p1[1], p1[2], S.width - 1, S.height - 1, FALSE)

\* The Bresenham loop `for _ in 0..=n`: i steps are still to be made.  major
\* tells the driving axis ("x" when dx >= dy).
RECURSIVE BresenhamLoop(_, _, _, _, _, _, _, _, _, _, _)
BresenhamLoop(S, x, y, err, i, dx, dy, sx, sy, major, color) ==
    IF S.panicked \/ i = 0 THEN S
    ELSE LET S1 == plot(S, x, y, color)
         IN  IF major = "x"
             THEN BresenhamLoop(S1, x + sx,
                                IF err >= 0 THEN y + sy ELSE y,
                                (IF err >= 0 THEN err - 2 * dx ELSE err) + 2 * dy,
                                i - 1, dx, dy, sx, sy, major, color)
             ELSE BresenhamLoop(S1, IF err >= 0 THEN x + sx ELSE x,
                                y + sy,
                                (IF err >= 0 THEN err - 2 * dy ELSE err) + 2 * dx,
                                i - 1, dx, dy, sx, sy, major, color)

\* Slip: only the two end points are plotted.
BresenhamEnds(S, p1, p2, color) == plot(plot(S, p1[1], p1[2], color), p2[1], p2[2], color)

\* Slip: the loop makes one step too few.
BresenhamShort(S, p1, p2, color) ==
    LET dx == Abs(p2[1] - p1[1])
        dy == Abs(p2[2] - p1[2])
        sx == Sign(p2[1] - p1[1])
        sy == Sign(p2[2] - p1[2])
    IN  IF dx >= dy
        THEN BresenhamLoop(S, p1[1], p1[2], 2 * dy - dx, dx, dx, dy, sx, sy, "x", color)
        ELSE BresenhamLoop(S, p1[1], p1[2], 2 * dx - dy, dy, dx, dy, sx, sy, "y", color)

\* The line between two clipped end points.
Bresenham(S, p1, p2, color) ==
    LET dx == Abs(p2[1] - p1[1])
        dy == Abs(p2[2] - p1[2])
        sx == Sign(p2[1] - p1[1])
        sy == Sign(p2[2] - p1[2])
    IN  IF dx >= dy
        THEN BresenhamLoop(S, p1[1], p1[2], 2 * dy - dx, dx + 1, dx, dy, sx, sy, "x", color)
        ELSE BresenhamLoop(S, p1[1], p1[2], 2 * dx - dy, dy + 1, dx, dy, sx, sy, "y", color)

\* What follows the clip in draw_line and line_px: c is the clip's result.
DrawClipped(S, c, color) ==
    IF c.panicked THEN Panic(S)
    ELSE IF ~c.some THEN S
    ELSE Bresenham(S, c.p0, c.p1, color)

\* Pixel coordinates are isize values, held as the records [neg, mag].  A
\* rasterizer f of the code is modelled by three operators:
\*   f_wide   takes its coordinates as isize records and is f for every
\*            value of them: each `+`, `-` and `*` with its overflow, each
\*            `/` with its panic, each `as` with its saturation;
\*   f_narrow is f on coordinates of at most NarrowMax in magnitude (and a
\*            stage no larger), where no intermediate value of f leaves the
\*            model's integers and the statements are computed on those;
\*            f_wide calls it on such coordinates;
\*   f        takes model integers and is f_wide on their isize records.
\* The shape functions and Path::render pass on the pixels they get from
\* world_to_pixel and from `as isize` as isize records.
NarrowMax == 8192

IsNarrow(n) == 0 - NarrowMax <= n /\ n <= NarrowMax
PxlIsNarrow(p) == IsNarrow(p[1]) /\ IsNarrow(p[2])
StageIsNarrow(S) == S.width <= NarrowMax /\ S.height <= NarrowMax

IsizeIsNarrow(v) == IsizeIsSmall(v) /\ IsNarrow(IsizeToInt(v))
IsizePxlIsNarrow(p) == IsizeIsNarrow(p[1]) /\ IsizeIsNarrow(p[2])

\* A pixel position as a pair of isize records.
IsizePxl(p) == <<IsizeOf(p[1]), IsizeOf(p[2])>>

\* out_code on full-width coordinates (xmin = ymin = 0).
out_code_wide(x, y, xmax, ymax) ==
    (IF IsizeSign(x) < 0 THEN 1 ELSE IF IsizeLt(xmax, x) THEN 2 ELSE 0)
    + (IF IsizeSign(y) < 0 THEN 4 ELSE IF IsizeLt(ymax, y) THEN 8 ELSE 0)

\* a0 + da * (edge - b0) / db in i64, one operator a step: the value v,
\* whether a step overflowed (o), and whether the division panics.
IntersectAdd(s, o) == [v |-> s.v, o |-> o \/ s.o, panics |-> FALSE]

IntersectDiv(a0, p, db, o) ==
    IF DivPanics(p.v, db) THEN [v |-> a0, o |-> o \/ p.o, panics |-> TRUE]
    ELSE IntersectAdd(overflowing_add(a0, I64Div(p.v, db)), o \/ p.o)

IntersectMul(a0, da, db, t) == IntersectDiv(a0, overflowing_mul(da, t.v), db, t.o)

Intersect(a0, b0, da, db, edge) == IntersectMul(a0, da, db, overflowing_sub(edge, b0))

\* The edge of the stage that the region c_out lies beyond.
ClipEdge(c_out, xmax, ymax) ==
    IF HasBit(c_out, 8) THEN ymax
    ELSE IF HasBit(c_out, 4) THEN IsizeOf(0)
    ELSE IF HasBit(c_out, 2) THEN xmax
    ELSE IsizeOf(0)

\* One pass of the loop of clip_line_to_stage at full width, a step an
\* operator: the out codes, the differences dx and dy, the new point.  The
\* result is the kind of the pass and, for kind "move", the end points of
\* the next pass.  checks is the build profile (OverflowChecks).
ClipMoveWide(x0, y0, x1, y1, first, horiz, edge, cut, checks) ==
    IF cut.panics \/ (checks /\ cut.o) THEN [kind |-> "panic"]
    ELSE LET xi == IF horiz THEN cut.v ELSE edge
             yi == IF horiz THEN edge ELSE cut.v
         IN  IF first
             THEN [kind |-> "move", x0 |-> xi, y0 |-> yi, x1 |-> x1, y1 |-> y1]
             ELSE [kind |-> "move", x0 |-> x0, y0 |-> y0, x1 |-> xi, y1 |-> yi]

ClipCutWide(x0, y0, x1, y1, first, horiz, edge, dx, dy, guarded, checks) ==
    IF checks /\ (dx.o \/ dy.o) THEN [kind |-> "panic"]
    ELSE IF guarded /\ DigitsIsZero(IF horiz THEN dy.v.mag ELSE dx.v.mag)
    THEN [kind |-> "none"]
    ELSE ClipMoveWide(x0, y0, x1, y1, first, horiz, edge,
                      IF horiz THEN Intersect(x0, y0, dx.v, dy.v, edge)
                      ELSE Intersect(y0, x0, dy.v, dx.v, edge), checks)

ClipOutWide(x0, y0, x1, y1, xmax, ymax, guarded, first, c_out, checks) ==
    ClipCutWide(x0, y0, x1, y1, first,
                HasBit(c_out, 8) \/ HasBit(c_out, 4),
                ClipEdge(c_out, xmax, ymax),
                overflowing_sub(x1, x0), overflowing_sub(y1, y0), guarded, checks)

ClipStepWide(x0, y0, x1, y1, xmax, ymax, guarded, c0, c1, checks) ==
    IF c0 = 0 /\ c1 = 0 THEN [kind |-> "some"]
    ELSE IF ShareBit(c0, c1) THEN [kind |-> "none"]
    ELSE ClipOutWide(x0, y0, x1, y1, xmax, ymax, guarded, c0 # 0,
                     IF c0 # 0 THEN c0 ELSE c1, checks)

\* The loop of clip_line_to_stage at full width: r is the pass made on the
\* end points.  The end points returned lie on the stage.
RECURSIVE ClipLoopWide(_, _, _, _, _, _, _, _)
ClipLoopWide(x0, y0, x1, y1, xmax, ymax, guarded, r) ==
    IF r.kind = "some"
    THEN ClipSome(IsizeToInt(x0), IsizeToInt(y0), IsizeToInt(x1), IsizeToInt(y1))
    ELSE IF r.kind = "none" THEN ClipNone
    ELSE IF r.kind = "panic" THEN ClipPanic
    ELSE ClipLoopWide(r.x0, r.y0, r.x1, r.y1, xmax, ymax, guarded,
                      ClipStepWide(r.x0, r.y0, r.x1, r.y1, xmax, ymax, guarded,
                                   out_code_wide(r.x0, r.y0, xmax, ymax),
                                   out_code_wide(r.x1, r.y1, xmax, ymax),
                                   OverflowChecks))

\* clip_line_to_stage on end points held at their full width.
clip_line_to_stage_wide(S, p0, p1, guarded) ==
    ClipLoopWide(p0[1], p0[2], p1[1], p1[2],
                 IsizeOf(S.width - 1), IsizeOf(S.height - 1), guarded,
                 [kind |-> "move", x0 |-> p0[1], y0 |-> p0[2],
                  x1 |-> p1[1], y1 |-> p1[2]])

\* draw_line of primitives/line.rs (draw_line_pxl to its callers) and
\* line_px of shapes/lines.rs on narrow end points
draw_line_narrow(S, xy1_px, xy2_px, color) ==
    IF S.panicked THEN S
    ELSE DrawClipped(S, clip_line_to_stage(S, xy1_px, xy2_px), color)

line_px_narrow(S, xy1_px, xy2_px, color) ==
    IF S.panicked THEN S
    ELSE DrawClipped(S, clip_line_to_stage_unguarded(S, xy1_px, xy2_px), color)

\* A pixel position as a pair of model integers; a coordinate that is not
\* IsizeIsSmall stays the isize it is.
PxlOf(p) == <<IsizeToInt(p[1]), IsizeToInt(p[2])>>

PxlIsSmall(p) == IsizeIsSmall(p[1]) /\ IsizeIsSmall(p[2])

\* A line whose clip is computed in i64; its result lies on the stage.
LineClippedWide(S, xy1_px, xy2_px, color, guarded) ==
    IF S.panicked THEN S
    ELSE DrawClipped(S, clip_line_to_stage_wide(S, xy1_px, xy2_px, guarded), color)

\* draw_line and line_px on end points that are pairs of isize
draw_line_wide(S, xy1_px, xy2_px, color) ==
    IF S.panicked THEN S
    ELSE IF IsizePxlIsNarrow(xy1_px) /\ IsizePxlIsNarrow(xy2_px) /\ StageIsNarrow(S)
    THEN draw_line_narrow(S, PxlOf(xy1_px), PxlOf(xy2_px), color)
    ELSE LineClippedWide(S, xy1_px, xy2_px, color, TRUE)

line_px_wide(S, xy1_px, xy2_px, color) ==
    IF S.panicked THEN S
    ELSE IF IsizePxlIsNarrow(xy1_px) /\ IsizePxlIsNarrow(xy2_px) /\ StageIsNarrow(S)
    THEN line_px_narrow(S, PxlOf(xy1_px), PxlOf(xy2_px), color)
    ELSE LineClippedWide(S, xy1_px, xy2_px, color, FALSE)

\* draw_line and line_px on end points that are pairs of model integers
draw_line(S, xy1_px, xy2_px, color) ==
    draw_line_wide(S, IsizePxl(xy1_px), IsizePxl(xy2_px), color)

line_px(S, xy1_px, xy2_px, color) ==
    line_px_wide(S, IsizePxl(xy1_px), IsizePxl(xy2_px), color)

\* line once both end points are converted: xy1_px and xy2_px are Options.
LineBetween(S, xy1_px, xy2_px, color) ==
    IF ~IsSome(xy1_px) THEN S
    ELSE IF ~IsSome(xy2_px) THEN S
    ELSE line_px_wide(S, Unwrap(xy1_px), Unwrap(xy2_px), color)

\* line of shapes/lines.rs: a stroke-only line between two world points.
line(S, xy1, xy2, style) ==
    IF S.panicked \/ ~IsSome(style.stroke) THEN S
    ELSE LineBetween(S, world_to_pixel(S, xy1[1], xy1[2]),
                     world_to_pixel(S, xy2[1], xy2[2]),
                     Stroke_rgba(Unwrap(style.stroke)))

\* -------------------------------------------------------- circle rasterizer
\* Slip: shrink_x stops one step late, leaving out the pixels at the limit.
RECURSIVE shrink_x_strict(_, _, _, _)
shrink_x_strict(x, x2, y2, limit2) ==
    IF x > 0 /\ x2 + y2 >= limit2
    THEN shrink_x_strict(x - 1, x2 - (2 * x - 1), y2, limit2)
    ELSE <<x, x2>>

\* The closure shrink_x of circle_pxl: the pair (x, x^2) after the loop.
RECURSIVE shrink_x(_, _, _, _)
shrink_x(x, x2, y2, limit2) ==
    IF x > 0 /\ x2 + y2 > limit2
    THEN shrink_x(x - 1, x2 - (2 * x - 1), y2, limit2)
    ELSE <<x, x2>>

\* Slip: the stroke is given no width.
CircleRadiiFlat(r0_pxl, style) ==
    [r_out |-> r0_pxl, r_in |-> r0_pxl, panicked |-> FALSE]

\* Slip: the stroke grows inward by ceil(w/2) as well.
CircleRadiiCeil(r0_pxl, style) ==
    IF IsSome(style.stroke)
    THEN LET w == Unwrap(style.stroke).width
         IN  IF ~is_finite(w) \/ F32Le(w, F32Zero)
             THEN [r_out |-> r0_pxl, r_in |-> r0_pxl, panicked |-> FALSE]
             ELSE IF Top(w) > 8 * USIZE_BYTES - 1
             THEN [r_out |-> 0, r_in |-> 0, panicked |-> r0_pxl > 0]
             ELSE LET half_out == IsizeToInt(F32ToIsize(ceil(F32Scale2(w, 0 - 1))))
                  IN  [r_out |-> r0_pxl + half_out, r_in |-> Max(r0_pxl - half_out, 0),
                       panicked |-> FALSE]
    ELSE [r_out |-> r0_pxl, r_in |-> r0_pxl, panicked |-> FALSE]

\* Slip: the stroke grows outward by floor(w/2) as well.
CircleRadiiFloor(r0_pxl, style) ==
    IF IsSome(style.stroke)
    THEN LET w == Unwrap(style.stroke).width
         IN  IF ~is_finite(w) \/ F32Le(w, F32Zero)
             THEN [r_out |-> r0_pxl, r_in |-> r0_pxl, panicked |-> FALSE]
             ELSE IF Top(w) > 8 * USIZE_BYTES - 1
             THEN [r_out |-> 0, r_in |-> 0, panicked |-> r0_pxl > 0]
             ELSE LET half_in == IsizeToInt(F32ToIsize(floor(F32Scale2(w, 0 - 1))))
                  IN  [r_out |-> r0_pxl + half_in, r_in |-> Max(r0_pxl - half_in, 0),
                       panicked |-> FALSE]
    ELSE [r_out |-> r0_pxl, r_in |-> r0_pxl, panicked |-> FALSE]

\* (0.5 * w).ceil() as isize and (0.5 * w).floor() as isize
half_out_of(w) == F32ToIsize(ceil(F32Scale2(w, 0 - 1)))
half_in_of(w) == F32ToIsize(floor(F32Scale2(w, 0 - 1)))

\* Whether the stroke of a style, if it has one, has half-widths that are
\* narrow.
StrokeIsNarrow(style) ==
    IF IsSome(style.stroke)
    THEN LET w == Unwrap(style.stroke).width
         IN  IF ~is_finite(w) \/ F32Le(w, F32Zero) THEN TRUE
             ELSE IsizeIsNarrow(half_out_of(w))
    ELSE TRUE

\* The radii of circle_pxl at full width: r_out and r_in, and whether
\* r0_pxl + half_out or r0_pxl - half_in overflowed (o).
CircleRadiiWide(r0_pxl, style) ==
    IF IsSome(style.stroke)
    THEN LET w == Unwrap(style.stroke).width
         IN  IF ~is_finite(w) \/ F32Le(w, F32Zero)
             THEN [r_out |-> r0_pxl, r_in |-> r0_pxl, o |-> FALSE]
             ELSE LET out == overflowing_add(r0_pxl, half_out_of(w))
                      in == overflowing_sub(r0_pxl, half_in_of(w))
                  IN  [r_out |-> out.v, r_in |-> IsizeMax(in.v, IsizeOf(0)),
                       o |-> out.o \/ in.o]
    ELSE [r_out |-> r0_pxl, r_in |-> r0_pxl, o |-> FALSE]

\* The radii r_out and r_in of circle_pxl, and whether their computation
\* panicked.  r0_pxl is a model integer; past the narrow values the sums are
\* made at full width, and under overflow checks `r0_pxl + half_out` or
\* `r0_pxl - half_in` panics when it overflows: there are no radii then.
CircleRadii(r0_pxl, style) ==
    IF IsNarrow(r0_pxl) /\ StrokeIsNarrow(style)
    THEN IF IsSome(style.stroke)
         THEN LET w == Unwrap(style.stroke).width
              IN  IF ~is_finite(w) \/ F32Le(w, F32Zero)
                  THEN [r_out |-> r0_pxl, r_in |-> r0_pxl, panicked |-> FALSE]
                  ELSE LET half_out == IsizeToInt(half_out_of(w))
                           half_in == IsizeToInt(half_in_of(w))
                       IN  [r_out |-> r0_pxl + half_out,
                            r_in |-> Max(r0_pxl - half_in, 0),
                            panicked |-> FALSE]
         ELSE [r_out |-> r0_pxl, r_in |-> r0_pxl, panicked |-> FALSE]
    ELSE LET r == CircleRadiiWide(IsizeOf(r0_pxl), style)
         IN  IF OverflowChecks /\ r.o
             THEN [r_out |-> 0, r_in |-> 0, panicked |-> TRUE]
             ELSE [r_out |-> IsizeToInt(r.r_out), r_in |-> IsizeToInt(r.r_in),
                   panicked |-> FALSE]

\* The rows y..r_out of the loop in circle_pxl.  c holds what the loop does
\* not change; out, in and fill are the pairs (x, x^2) carried from row to row.
RECURSIVE CircleRows(_, _, _, _, _, _, _)
CircleRows(S, y, y2, c, out, in, fill) ==
    IF S.panicked \/ y > c.r_out THEN S
    ELSE LET has_fill == IsSome(c.fill_rgba)
             has_stroke == IsSome(c.stroke_rgba)
             o == shrink_x(out[1], out[2], y2, c.r_out2)
             i == IF has_stroke /\ c.r_in # 0
                  THEN shrink_x(in[1], in[2], y2, c.r_in2) ELSE in
             x_in_row == IF has_stroke /\ c.r_in # 0 /\ i[2] + y2 <= c.r_in2
                         THEN i[1] ELSE 0 - 1
             f == IF has_fill /\ c.r_fill # 0
                  THEN shrink_x(fill[1], fill[2], y2, c.r_fill2) ELSE fill
             x_fill_row == IF has_fill /\ c.r_fill # 0 /\ f[2] + y2 <= c.r_fill2
                           THEN f[1] ELSE 0 - 1
             y_top == c.yc - y
             y_bot == c.yc + y
             x_out == o[1]
             a == x_in_row + 1
             S1 == IF has_fill /\ x_fill_row >= 0
                   THEN LET col == Unwrap(c.fill_rgba)
                            T == fill_span(S, y_top, c.xc - x_fill_row, c.xc + x_fill_row, col)
                        IN  IF y # 0
                            THEN fill_span(T, y_bot, c.xc - x_fill_row, c.xc + x_fill_row, col)
                            ELSE T
                   ELSE S
             S2 == IF has_stroke /\ a <= x_out
                   THEN LET col == Unwrap(c.stroke_rgba)
                        IN  IF a <= 0
                            THEN LET T == fill_span(S1, y_top, c.xc - x_out, c.xc + x_out, col)
                                 IN  IF y # 0
                                     THEN fill_span(T, y_bot, c.xc - x_out, c.xc + x_out, col)
                                     ELSE T
                            ELSE LET T == fill_span(S1, y_top, c.xc - x_out, c.xc - a, col)
                                     U == fill_span(T, y_top, c.xc + a, c.xc + x_out, col)
                                 IN  IF y # 0
                                     THEN fill_span(fill_span(U, y_bot, c.xc - x_out, c.xc - a, col),
                                                    y_bot, c.xc + a, c.xc + x_out, col)
                                     ELSE U
                   ELSE S1
         IN  CircleRows(S2, y + 1, y2 + 2 * y + 1, c, o, i, f)

\* circle_pxl at full width.  The statements are those of the narrow form
\* above, each `+`, `-` and `*` with its overflow; a step is an operator.
\*
\* shrink_x: the pair (x, x2) after the loop, and whether a step panicked.
\* The state of the loop is the pair, with done once the loop has ended.
ShrinkState(x, x2, panics, done) == [x |-> x, x2 |-> x2, panics |-> panics, done |-> done]

\* x2 -= 2 * (x as i64) - 1; x -= 1 (nx2 and nx are the differences)
ShrinkStepWide(nx, nx2) ==
    ShrinkState(nx.v, nx2.v, ~Checked(nx) \/ ~Checked(nx2), ~Checked(nx) \/ ~Checked(nx2))

\* x2 + y2 > limit2 (sum is x2 + y2)
ShrinkTestWide(x, x2, limit2, sum) ==
    IF ~Checked(sum) THEN ShrinkState(x, x2, TRUE, TRUE)
    ELSE IF ~IsizeLt(limit2, sum.v) THEN ShrinkState(x, x2, FALSE, TRUE)
    ELSE ShrinkStepWide(overflowing_sub(x, IsizeOf(1)),
                        OSub(Pure(x2), OSub(overflowing_mul(IsizeOf(2), x), IsizeOf(1)).v))

\* One turn of `while x > 0 && x2 + y2 > limit2`.
ShrinkTurnWide(p, y2, limit2) ==
    IF IsizeSign(p.x) <= 0 THEN ShrinkState(p.x, p.x2, FALSE, TRUE)
    ELSE ShrinkTestWide(p.x, p.x2, limit2, overflowing_add(p.x2, y2))

RECURSIVE ShrinkLoopWide(_, _, _)
ShrinkLoopWide(p, y2, limit2) ==
    IF p.done THEN p ELSE ShrinkLoopWide(ShrinkTurnWide(p, y2, limit2), y2, limit2)

shrink_x_wide(x, x2, y2, limit2) ==
    ShrinkLoopWide(ShrinkState(x, x2, FALSE, FALSE), y2, limit2)

\* A span of the circle: the row and the ends are results of `+` and `-`.
SpanWide(S, y, x0, x1, col) ==
    IF S.panicked THEN S
    ELSE IF ~Checked(x0) \/ ~Checked(x1) THEN Panic(S)
    ELSE fill_span_wide(S, y, x0.v, x1.v, col)

\* if x2 + y2 <= limit2 { x } else { -1 }
RowEnd(pair, y2, limit2) ==
    LET sum == overflowing_add(pair.x2, y2)
    IN  [v |-> IF IsizeLe(sum.v, limit2) THEN pair.x ELSE IsizeOf(0 - 1), o |-> sum.o]

CircleFillWide(S, y, c, x_fill_row, y_top, y_bot) ==
    IF IsSome(c.fill_rgba) /\ IsizeSign(x_fill_row) >= 0
    THEN LET col == Unwrap(c.fill_rgba)
             T == SpanWide(S, y_top, overflowing_sub(c.xc, x_fill_row),
                           overflowing_add(c.xc, x_fill_row), col)
         IN  IF IsizeSign(y) # 0
             THEN SpanWide(T, y_bot, overflowing_sub(c.xc, x_fill_row),
                           overflowing_add(c.xc, x_fill_row), col)
             ELSE T
    ELSE S

CircleStrokeSpans(S, y, c, a, x_out, y_top, y_bot, col) ==
    IF IsizeSign(a) <= 0
    THEN LET T == SpanWide(S, y_top, overflowing_sub(c.xc, x_out),
                           overflowing_add(c.xc, x_out), col)
         IN  IF IsizeSign(y) # 0
             THEN SpanWide(T, y_bot, overflowing_sub(c.xc, x_out),
                           overflowing_add(c.xc, x_out), col)
             ELSE T
    ELSE LET T == SpanWide(S, y_top, overflowing_sub(c.xc, x_out),
                           overflowing_sub(c.xc, a), col)
             U == SpanWide(T, y_top, overflowing_add(c.xc, a),
                           overflowing_add(c.xc, x_out), col)
         IN  IF IsizeSign(y) # 0
             THEN SpanWide(SpanWide(U, y_bot, overflowing_sub(c.xc, x_out),
                                    overflowing_sub(c.xc, a), col),
                           y_bot, overflowing_add(c.xc, a),
                           overflowing_add(c.xc, x_out), col)
             ELSE U

CircleStrokeWide(S, y, c, a, x_out, y_top, y_bot) ==
    IF S.panicked \/ ~IsSome(c.stroke_rgba) THEN S
    ELSE IF ~Checked(a) THEN Panic(S)
    ELSE IF IsizeLe(a.v, x_out)
    THEN CircleStrokeSpans(S, y, c, a.v, x_out, y_top, y_bot, Unwrap(c.stroke_rgba))
    ELSE S

\* The state of the loop `for y in 0..=r_out`: the stage, the row y with its
\* square y2, the pairs (x, x2) carried from row to row, and done once the
\* last row is drawn or a row panicked.
CircleState(S, y, y2, out, in, fill, done) ==
    [S |-> S, y |-> y, y2 |-> y2, out |-> out, in |-> in, fill |-> fill, done |-> done]

\* y2 += 2 * (y as i64) + 1 (ny2 is the sum), and the next row if there is one.
CircleNextWide(S, y, ny2, c, o, i, f) ==
    IF S.panicked \/ ~Checked(ny2) THEN CircleState(Panic(S), y, ny2.v, o, i, f, TRUE)
    ELSE CircleState(S, overflowing_add(y, IsizeOf(1)).v, ny2.v, o, i, f,
                     IsizeEq(y, c.r_out))

CircleSpansWide(S, y, y2, c, o, i, f, x_in_row, x_fill_row, y_top, y_bot) ==
    IF ~Checked(x_in_row) \/ ~Checked(x_fill_row) \/ ~Checked(y_top) \/ ~Checked(y_bot)
    THEN CircleState(Panic(S), y, y2, o, i, f, TRUE)
    ELSE CircleNextWide(
             CircleStrokeWide(CircleFillWide(S, y, c, x_fill_row.v, y_top.v, y_bot.v),
                              y, c, overflowing_add(x_in_row.v, IsizeOf(1)), o.x,
                              y_top.v, y_bot.v),
             y, OAdd(OAdd(overflowing_mul(IsizeOf(2), y), IsizeOf(1)), y2), c, o, i, f)

CircleShrunkWide(S, y, y2, c, o, i, f) ==
    IF o.panics \/ i.panics \/ f.panics THEN CircleState(Panic(S), y, y2, o, i, f, TRUE)
    ELSE CircleSpansWide(S, y, y2, c, o, i, f,
             IF IsSome(c.stroke_rgba) /\ IsizeSign(c.r_in) # 0
             THEN RowEnd(i, y2, c.r_in2) ELSE Pure(IsizeOf(0 - 1)),
             IF IsSome(c.fill_rgba) /\ IsizeSign(c.r_fill) # 0
             THEN RowEnd(f, y2, c.r_fill2) ELSE Pure(IsizeOf(0 - 1)),
             overflowing_sub(c.yc, y), overflowing_add(c.yc, y))

\* One row of the loop in circle_pxl.
CircleRowWide(st, c) ==
    CircleShrunkWide(st.S, st.y, st.y2, c,
        shrink_x_wide(st.out.x, st.out.x2, st.y2, c.r_out2),
        IF IsSome(c.stroke_rgba) /\ IsizeSign(c.r_in) # 0
        THEN shrink_x_wide(st.in.x, st.in.x2, st.y2, c.r_in2) ELSE st.in,
        IF IsSome(c.fill_rgba) /\ IsizeSign(c.r_fill) # 0
        THEN shrink_x_wide(st.fill.x, st.fill.x2, st.y2, c.r_fill2) ELSE st.fill)

\* The rows of the loop in circle_pxl from the row of st on.
RECURSIVE CircleRowsWide(_, _)
CircleRowsWide(st, c) ==
    IF st.done \/ st.S.panicked THEN st.S
    ELSE CircleRowsWide(CircleRowWide(st, c), c)

\* What the loop does not change, at full width; o tells that a sum of the
\* radii or a square overflowed.
CircleSquaresWide(fill_rgba, stroke_rgba, origin_pxl, radii, r_fill) ==
    LET r_out2 == overflowing_mul(radii.r_out, radii.r_out)
        r_in2 == overflowing_mul(radii.r_in, radii.r_in)
        r_fill2 == overflowing_mul(r_fill, r_fill)
    IN  [fill_rgba |-> fill_rgba, stroke_rgba |-> stroke_rgba,
         xc |-> origin_pxl[1], yc |-> origin_pxl[2],
         r_out |-> radii.r_out, r_out2 |-> r_out2.v,
         r_in |-> radii.r_in, r_in2 |-> r_in2.v,
         r_fill |-> r_fill, r_fill2 |-> r_fill2.v,
         o |-> radii.o \/ r_out2.o \/ r_in2.o \/ r_fill2.o]

CircleFillRadius(fill_rgba, stroke_rgba, origin_pxl, r0_pxl, radii) ==
    CircleSquaresWide(fill_rgba, stroke_rgba, origin_pxl, radii,
                      IF IsSome(fill_rgba)
                      THEN (IF IsSome(stroke_rgba) THEN radii.r_in ELSE r0_pxl)
                      ELSE IsizeOf(0))

CircleConstsWide(origin_pxl, r0_pxl, style) ==
    CircleFillRadius(IF IsSome(style.fill)
                     THEN Some(Fill_rgba(Unwrap(style.fill))) ELSE None,
                     IF IsSome(style.stroke)
                     THEN Some(Stroke_rgba(Unwrap(style.stroke))) ELSE None,
                     origin_pxl, r0_pxl, CircleRadiiWide(r0_pxl, style))

\* The loop `for y in 0..=r_out` at full width, from its first row.
CircleLoopWide(S, c) ==
    IF OverflowChecks /\ c.o THEN Panic(S)
    ELSE IF IsizeSign(c.r_out) < 0 THEN S
    ELSE CircleRowsWide(CircleState(S, IsizeOf(0), IsizeOf(0),
                                    ShrinkState(c.r_out, c.r_out2, FALSE, FALSE),
                                    ShrinkState(c.r_in, c.r_in2, FALSE, FALSE),
                                    ShrinkState(c.r_fill, c.r_fill2, FALSE, FALSE),
                                    FALSE), c)

CirclePxlWide(S, origin_pxl, r0_pxl, style) ==
    IF S.panicked \/ ~fill_or_stroke_exists(style) THEN S
    ELSE IF IsizeSign(r0_pxl) <= 0 THEN S
    ELSE CircleLoopWide(S, CircleConstsWide(origin_pxl, r0_pxl, style))

\* What the loop of circle_pxl does not change: the resolved colours, the
\* centre, and the radii with their squares (on narrow values).
CircleSquares(fill_rgba, stroke_rgba, origin_pxl, r_out, r_in, r_fill) ==
    [fill_rgba |-> fill_rgba, stroke_rgba |-> stroke_rgba,
     xc |-> origin_pxl[1], yc |-> origin_pxl[2],
     r_out |-> r_out, r_out2 |-> r_out * r_out,
     r_in |-> r_in, r_in2 |-> r_in * r_in,
     r_fill |-> r_fill, r_fill2 |-> r_fill * r_fill]

CircleConstsOf(fill_rgba, stroke_rgba, origin_pxl, r0_pxl, radii) ==
    CircleSquares(fill_rgba, stroke_rgba, origin_pxl, radii.r_out, radii.r_in,
                  IF IsSome(fill_rgba)
                  THEN (IF IsSome(stroke_rgba) THEN radii.r_in ELSE r0_pxl)
                  ELSE 0)

CircleConsts(origin_pxl, r0_pxl, style) ==
    CircleConstsOf(IF IsSome(style.fill)
                   THEN Some(Fill_rgba(Unwrap(style.fill))) ELSE None,
                   IF IsSome(style.stroke)
                   THEN Some(Stroke_rgba(Unwrap(style.stroke))) ELSE None,
                   origin_pxl, r0_pxl, CircleRadii(r0_pxl, style))

\* The loop `for y in 0..=r_out` of circle_pxl, from its first row.
CircleLoop(S, c) ==
    CircleRows(S, 0, 0, c, <<c.r_out, c.r_out2>>, <<c.r_in, c.r_in2>>,
               <<c.r_fill, c.r_fill2>>)

\* circle_pxl on a narrow centre, radius and stroke width
circle_pxl_narrow(S, origin_pxl, r0_pxl, style) ==
    IF S.panicked \/ ~fill_or_stroke_exists(style) THEN S
    ELSE IF r0_pxl <= 0 THEN S
    ELSE CircleLoop(S, CircleConsts(origin_pxl, r0_pxl, style))

\* circle_pxl: a circle of nominal radius r0_pxl about a pixel, both isize
circle_pxl_wide(S, origin_pxl, r0_pxl, style) ==
    IF IsizePxlIsNarrow(origin_pxl) /\ IsizeIsNarrow(r0_pxl) /\ StrokeIsNarrow(style)
       /\ StageIsNarrow(S)
    THEN circle_pxl_narrow(S, PxlOf(origin_pxl), IsizeToInt(r0_pxl), style)
    ELSE CirclePxlWide(S, origin_pxl, r0_pxl, style)

\* circle_pxl on a centre and a radius that are model integers
circle_pxl(S, origin_pxl, r0_pxl, style) ==
    circle_pxl_wide(S, IsizePxl(origin_pxl), IsizeOf(r0_pxl), style)

\* radius.ceil().max(1.0) as isize
r0_pxl_of(radius) == F32ToIsize(F32Max(ceil(radius), F32One))

\* circle once the centre is converted: origin_pxl is an Option.
CircleAbout(S, origin_pxl, radius, style) ==
    IF ~IsSome(origin_pxl) THEN S
    ELSE circle_pxl_wide(S, Unwrap(origin_pxl), r0_pxl_of(radius), style)

\* circle: a circle about a world point.
circle(S, origin, radius, style) ==
    IF S.panicked \/ ~is_finite(radius) \/ F32Le(radius, F32Zero) THEN S
    ELSE CircleAbout(S, world_to_pixel(S, origin[1], origin[2]), radius, style)

\* circle and circle_px of arch_shapes/circles.rs, the circle before the
\* stroke had a width.
\*
\* `v as usize` for an f32: truncation toward zero, saturating at 0 and at
\* usize::MAX, 0 for a NaN.
F32ToUsize(v) ==
    IF v.k = "nan" THEN UsizeOf(0)
    ELSE IF v.m <= 0 THEN UsizeOf(0)
    ELSE IF v.k = "inf" THEN [i \in 1..USIZE_BYTES |-> 255]
    ELSE IF v.e < 0
         THEN UsizeOf(IF 0 - v.e >= 31 THEN 0 ELSE v.m \div Pow2(0 - v.e))
    ELSE IF Top(v) > 8 * USIZE_BYTES THEN [i \in 1..USIZE_BYTES |-> 255]
    ELSE [i \in 1..USIZE_BYTES |-> ShiftedByte(v.m, v.e, i)]

\* The radii of circle_px: the outer radius is the radius r it is given and
\* the inner radius `(r - 1).max(0)`, whatever the stroke's width.
ArchCircleRadii(r) == [r_out |-> r, r_in |-> Max(r - 1, 0)]

\* The same at full width; r > 0, so that r - 1 does not overflow.
ArchCircleRadiiWide(r) ==
    LET in == overflowing_sub(r, IsizeOf(1))
    IN  [r_out |-> r, r_in |-> IsizeMax(in.v, IsizeOf(0)), o |-> in.o]

\* What the loop of circle_px does not change.  xin_row, the end of the inner
\* disc in a row, bounds the fill and the stroke alike: the fill's radius is
\* the inner radius.
ArchCircleConsts(origin_px, r, style) ==
    CircleSquares(IF IsSome(style.fill)
                  THEN Some(Fill_rgba(Unwrap(style.fill))) ELSE None,
                  IF IsSome(style.stroke)
                  THEN Some(Stroke_rgba(Unwrap(style.stroke))) ELSE None,
                  origin_px, ArchCircleRadii(r).r_out, ArchCircleRadii(r).r_in,
                  ArchCircleRadii(r).r_in)

ArchCircleConstsWide(origin_px, r, style) ==
    CircleSquaresWide(IF IsSome(style.fill)
                      THEN Some(Fill_rgba(Unwrap(style.fill))) ELSE None,
                      IF IsSome(style.stroke)
                      THEN Some(Stroke_rgba(Unwrap(style.stroke))) ELSE None,
                      origin_px, ArchCircleRadiiWide(r), ArchCircleRadiiWide(r).r_in)

\* circle_px once `radius_px as isize` is made: r is that isize.  The loop
\* `for y in 0..=r` is the loop of circle_pxl, statement for statement, with
\* these radii: shrink_x on the outer and on the inner pair, the fill's spans
\* to xin_row, the stroke's spans from xin_row + 1 to x_out.
ArchCirclePx(S, origin_px, r, style) ==
    IF IsizeSign(r) <= 0 THEN S
    ELSE IF IsizePxlIsNarrow(origin_px) /\ IsizeIsNarrow(r) /\ StageIsNarrow(S)
    THEN CircleLoop(S, ArchCircleConsts(PxlOf(origin_px), IsizeToInt(r), style))
    ELSE CircleLoopWide(S, ArchCircleConstsWide(origin_px, r, style))

\* circle_px: a circle about the pixel origin_px (isize) of radius radius_px
\* (usize digits).  `radius_px as isize` keeps the 64 bits: a radius of 2^63
\* or more is a negative isize, and nothing is drawn.
arch_circle_px(S, origin_px, radius_px, style) ==
    IF S.panicked \/ ~fill_or_stroke_exists(style) THEN S
    ELSE ArchCirclePx(S, origin_px, I64OfBits(radius_px), style)

\* circle once the centre is converted: origin_px is an Option.
ArchCircleAbout(S, origin_px, radius, style) ==
    IF ~IsSome(origin_px) THEN S
    ELSE arch_circle_px(S, Unwrap(origin_px),
                        F32ToUsize(F32Max(ceil(radius), F32One)), style)

\* circle of arch_shapes/circles.rs: a circle about a world point.
arch_circle(S, origin, radius, style) ==
    IF S.panicked \/ ~is_finite(radius) \/ F32Le(radius, F32Zero) THEN S
    ELSE ArchCircleAbout(S, world_to_pixel(S, origin[1], origin[2]), radius, style)

\* ------------------------------------------------------ triangle rasterizer
\* sort_vertices: a stable sort of the three vertices by y.
sort_vertices(xy1, xy2, xy3) ==
    LET v == <<xy1, xy2, xy3>>
        rank(i) == Cardinality({j \in 1..3 : \/ v[j][2] < v[i][2]
                                             \/ v[j][2] = v[i][2] /\ j < i}) + 1
    IN  [k \in 1..3 |-> v[CHOOSE i \in 1..3 : rank(i) = k]]

\* Slip: the bounds are taken in the order of the edges.
span_bounds_unsorted(curx1, curx2) == <<curx1, curx2>>

sort_span_bounds(curx1, curx2) ==
    IF curx1 <= curx2 THEN <<curx1, curx2>> ELSE <<curx2, curx1>>

\* invslope_fp: dx/dy in 16.16 fixed point, truncated toward zero.
invslope_fp(dx, dy) == TruncDiv(dx * Pow2(16), dy)

\* fp_ceil_to_int: (x_fp + 0xFFFF) >> 16, the shift being arithmetic.
fp_ceil_to_int(x_fp) == (x_fp + (Pow2(16) - 1)) \div Pow2(16)

\* Slip: the bottom scanline of a flat part is filled too.
RECURSIVE FlatRowsInclusive(_, _, _, _, _, _, _, _)
FlatRowsInclusive(S, y, yend, curx1, curx2, dxdy1, dxdy2, color) ==
    IF S.panicked \/ y > yend THEN S
    ELSE LET xa == fp_ceil_to_int(curx1)
             xb == fp_ceil_to_int(curx2)
             b == sort_span_bounds(xa, xb)
         IN  FlatRowsInclusive(fill_span(S, y, b[1], b[2] - 1, color), y + 1, yend,
                               curx1 + dxdy1, curx2 + dxdy2, dxdy1, dxdy2, color)

\* Slip: the right end of a span is kept.
RECURSIVE FlatRowsClosed(_, _, _, _, _, _, _, _)
FlatRowsClosed(S, y, yend, curx1, curx2, dxdy1, dxdy2, color) ==
    IF S.panicked \/ y >= yend THEN S
    ELSE LET xa == fp_ceil_to_int(curx1)
             xb == fp_ceil_to_int(curx2)
             b == sort_span_bounds(xa, xb)
         IN  FlatRowsClosed(fill_span(S, y, b[1], b[2], color), y + 1, yend,
                            curx1 + dxdy1, curx2 + dxdy2, dxdy1, dxdy2, color)

\* The scanline loop `for y in y..yend` shared by the two flat fills.
RECURSIVE FlatRows(_, _, _, _, _, _, _, _)
FlatRows(S, y, yend, curx1, curx2, dxdy1, dxdy2, color) ==
    IF S.panicked \/ y >= yend THEN S
    ELSE LET xa == fp_ceil_to_int(curx1)
             xb == fp_ceil_to_int(curx2)
             b == sort_span_bounds(xa, xb)
         IN  FlatRows(fill_span(S, y, b[1], b[2] - 1, color), y + 1, yend,
                      curx1 + dxdy1, curx2 + dxdy2, dxdy1, dxdy2, color)

\* fill_flat_bottom_triangle: v1.y <= v2.y == v3.y
fill_flat_bottom_triangle(S, v1, v2, v3, fill_color) ==
    LET dy1 == v2[2] - v1[2]
        dy2 == v3[2] - v1[2]
    IN  IF S.panicked \/ dy1 = 0 \/ dy2 = 0 THEN S
        ELSE FlatRows(S, v1[2], v2[2], v1[1] * Pow2(16), v1[1] * Pow2(16),
                      invslope_fp(v2[1] - v1[1], dy1), invslope_fp(v3[1] - v1[1], dy2),
                      fill_color)

\* fill_flat_top_triangle: v1.y == v2.y <= v3.y
fill_flat_top_triangle(S, v1, v2, v3, fill_color) ==
    LET dy1 == v3[2] - v1[2]
        dy2 == v3[2] - v2[2]
    IN  IF S.panicked \/ dy1 = 0 \/ dy2 = 0 THEN S
        ELSE FlatRows(S, v1[2], v3[2], v1[1] * Pow2(16), v2[1] * Pow2(16),
                      invslope_fp(v3[1] - v1[1], dy1), invslope_fp(v3[1] - v2[1], dy2),
                      fill_color)

\* fill_triangle at full width.  The statements are those of the narrow
\* form above, each `+`, `-` and `*` with its overflow and each `/` with its
\* panic; a step is an operator.
sort_vertices_wide(xy1, xy2, xy3) ==
    LET v == <<xy1, xy2, xy3>>
        rank(i) == Cardinality({j \in 1..3 : \/ IsizeLt(v[j][2], v[i][2])
                                             \/ IsizeEq(v[j][2], v[i][2]) /\ j < i}) + 1
    IN  [k \in 1..3 |-> v[CHOOSE i \in 1..3 : rank(i) = k]]

\* fp_ceil_to_int: (x_fp + 0xFFFF) >> 16
fp_ceil_to_int_wide(x_fp) ==
    Merge(FALSE, [v |-> Shr16(overflowing_add(x_fp, IsizeOf(65535)).v),
                  o |-> overflowing_add(x_fp, IsizeOf(65535)).o])

\* The scanline loop `for y in y..yend` shared by the two flat fills.  Its
\* state is the stage, the row y and the two edges curx1 and curx2; a row is
\* a chain of operators, each taking the results of the `+` and `-` before it.
FlatState(S, y, curx1, curx2) == [S |-> S, y |-> y, curx1 |-> curx1, curx2 |-> curx2]

\* curx1 += dxdy1; curx2 += dxdy2 (n1 and n2 are the sums)
FlatNextWide(S, y, n1, n2) ==
    IF S.panicked \/ ~Checked(n1) \/ ~Checked(n2) THEN FlatState(Panic(S), y, n1.v, n2.v)
    ELSE FlatState(S, overflowing_add(y, IsizeOf(1)).v, n1.v, n2.v)

\* x1 -= 1; stage.fill_span(y, x0, x1, rgba)
FlatSpanWide(S, y, curx1, curx2, dxdy1, dxdy2, color, x0, x1) ==
    IF ~Checked(x1) THEN FlatState(Panic(S), y, curx1, curx2)
    ELSE FlatNextWide(fill_span_wide(S, y, x0, x1.v, color), y,
                      overflowing_add(curx1, dxdy1), overflowing_add(curx2, dxdy2))

\* One scanline: xa and xb are fp_ceil_to_int of the two edges.
FlatRowWide(st, dxdy1, dxdy2, color, xa, xb) ==
    IF ~Checked(xa) \/ ~Checked(xb) THEN FlatState(Panic(st.S), st.y, st.curx1, st.curx2)
    ELSE FlatSpanWide(st.S, st.y, st.curx1, st.curx2, dxdy1, dxdy2, color,
                      IsizeMin(xa.v, xb.v),
                      overflowing_sub(IsizeMax(xa.v, xb.v), IsizeOf(1)))

RECURSIVE FlatRowsWide(_, _, _, _, _)
FlatRowsWide(st, yend, dxdy1, dxdy2, color) ==
    IF st.S.panicked \/ ~IsizeLt(st.y, yend) THEN st.S
    ELSE FlatRowsWide(FlatRowWide(st, dxdy1, dxdy2, color,
                                  fp_ceil_to_int_wide(st.curx1),
                                  fp_ceil_to_int_wide(st.curx2)),
                      yend, dxdy1, dxdy2, color)

\* A flat fill from its first row: the rows ystart..yend, the edges start
\* at xa and xb, their slopes are invslope_fp(dx1, dy1) and
\* invslope_fp(dx2, dy2); the differences are results of `-`.
FlatSlopesWide(S, ystart, yend, xa, xb, n1, dy1, n2, dy2, color) ==
    IF DivPanics(n1, dy1) \/ DivPanics(n2, dy2) THEN Panic(S)
    ELSE FlatRowsWide(FlatState(S, ystart, Shl16(xa), Shl16(xb)), yend,
                      I64Div(n1, dy1), I64Div(n2, dy2), color)

FlatWide(S, ystart, yend, xa, xb, dx1, dy1, dx2, dy2, color) ==
    IF S.panicked THEN S
    ELSE IF ~Checked(dy1) \/ ~Checked(dy2) THEN Panic(S)
    ELSE IF DigitsIsZero(dy1.v.mag) \/ DigitsIsZero(dy2.v.mag) THEN S
    ELSE IF ~Checked(dx1) \/ ~Checked(dx2) THEN Panic(S)
    ELSE FlatSlopesWide(S, ystart, yend, xa, xb, Shl16(dx1.v), dy1.v,
                        Shl16(dx2.v), dy2.v, color)

\* A flat part of a triangle: top tells fill_flat_top_triangle
\* (v1.y == v2.y <= v3.y) from fill_flat_bottom_triangle
\* (v1.y <= v2.y == v3.y).  The first edge runs from v1 to v3 (top) or to v2
\* (bottom), the second to v3 from v2 (top) or from v1 (bottom).
FlatPart(top, v1, v2, v3) == [top |-> top, v1 |-> v1, v2 |-> v2, v3 |-> v3]

FlatPartWide(S, f, fill_color) ==
    FlatWide(S, f.v1[2], IF f.top THEN f.v3[2] ELSE f.v2[2],
             f.v1[1], IF f.top THEN f.v2[1] ELSE f.v1[1],
             overflowing_sub(IF f.top THEN f.v3[1] ELSE f.v2[1], f.v1[1]),
             overflowing_sub(IF f.top THEN f.v3[2] ELSE f.v2[2], f.v1[2]),
             overflowing_sub(f.v3[1], IF f.top THEN f.v2[1] ELSE f.v1[1]),
             overflowing_sub(f.v3[2], IF f.top THEN f.v2[2] ELSE f.v1[2]), fill_color)

\* fill_flat_bottom_triangle and fill_flat_top_triangle at full width
fill_flat_bottom_triangle_wide(S, v1, v2, v3, fill_color) ==
    FlatPartWide(S, FlatPart(FALSE, v1, v2, v3), fill_color)

fill_flat_top_triangle_wide(S, v1, v2, v3, fill_color) ==
    FlatPartWide(S, FlatPart(TRUE, v1, v2, v3), fill_color)

\* What fill_triangle does with its sorted vertices: the flat parts it
\* fills, in order, or the panic of the arithmetic that splits the triangle.
FillPlan(panics, parts) == [panics |-> panics, parts |-> parts]

\* The two flat parts of a triangle split at v4 = (x4, y2); x4 is the result
\* of the `+` that makes it.
SplitFillWide(v, x4) ==
    IF ~Checked(x4) THEN FillPlan(TRUE, <<>>)
    ELSE FillPlan(FALSE, <<FlatPart(FALSE, v[1], v[2], <<x4.v, v[2][2]>>),
                           FlatPart(TRUE, v[2], <<x4.v, v[2][2]>>, v[3])>>)

\* x4 = x1 + ((t_fp * (x3 - x1) as i64) >> 16), from t_fp and x3 - x1.
SplitProductWide(v, prod) ==
    IF ~Checked(prod) THEN FillPlan(TRUE, <<>>)
    ELSE SplitFillWide(v, overflowing_add(v[1][1], Shr16(prod.v)))

SplitAtWide(v, t_fp, dx) ==
    IF ~Checked(dx) THEN FillPlan(TRUE, <<>>)
    ELSE SplitProductWide(v, overflowing_mul(t_fp, dx.v))

\* t_fp = (((y2 - y1) as i64) << 16) / (dy as i64), from dy and y2 - y1.
SplitWide(v, dy, d21) ==
    IF ~Checked(dy) THEN FillPlan(TRUE, <<>>)
    ELSE IF DigitsIsZero(dy.v.mag) THEN FillPlan(FALSE, <<>>)
    ELSE IF ~Checked(d21) \/ DivPanics(Shl16(d21.v), dy.v) THEN FillPlan(TRUE, <<>>)
    ELSE SplitAtWide(v, I64Div(Shl16(d21.v), dy.v), overflowing_sub(v[3][1], v[1][1]))

FillSortedWide(v) ==
    IF IsizeEq(v[1][2], v[3][2]) THEN FillPlan(FALSE, <<>>)
    ELSE IF IsizeEq(v[2][2], v[3][2])
    THEN FillPlan(FALSE, <<FlatPart(FALSE, v[1], v[2], v[3])>>)
    ELSE IF IsizeEq(v[1][2], v[2][2])
    THEN FillPlan(FALSE, <<FlatPart(TRUE, v[1], v[2], v[3])>>)
    ELSE SplitWide(v, overflowing_sub(v[3][2], v[1][2]),
                   overflowing_sub(v[2][2], v[1][2]))

\* The flat parts k.. of a plan, filled in order.
RECURSIVE FlatPartsWide(_, _, _, _)
FlatPartsWide(S, parts, k, fill_color) ==
    IF S.panicked \/ k > Len(parts) THEN S
    ELSE FlatPartsWide(FlatPartWide(S, parts[k], fill_color), parts, k + 1, fill_color)

FillPlanWide(S, plan, fill_color) ==
    IF S.panicked THEN S
    ELSE IF plan.panics THEN Panic(S)
    ELSE FlatPartsWide(S, plan.parts, 1, fill_color)

\* fill_triangle: an arbitrary triangle in pixel coordinates, its vertices
\* narrow.
fill_triangle_narrow(S, xy1, xy2, xy3, fill_color) ==
    LET v == sort_vertices(xy1, xy2, xy3)
        x1 == v[1][1]
        y1 == v[1][2]
        y2 == v[2][2]
        x3 == v[3][1]
        y3 == v[3][2]
    IN  IF S.panicked \/ y1 = y3 THEN S
        ELSE IF y2 = y3 THEN fill_flat_bottom_triangle(S, v[1], v[2], v[3], fill_color)
        ELSE IF y1 = y2 THEN fill_flat_top_triangle(S, v[1], v[2], v[3], fill_color)
        ELSE LET t_fp == TruncDiv((y2 - y1) * Pow2(16), y3 - y1)
                 x4 == x1 + ((t_fp * (x3 - x1)) \div Pow2(16))
                 v4 == <<x4, y2>>
             IN  fill_flat_top_triangle(
                     fill_flat_bottom_triangle(S, v[1], v[2], v4, fill_color),
                     v[2], v4, v[3], fill_color)

\* The vertices of a triangle are narrow, and the stage.
TriangleIsNarrow(S, xy1, xy2, xy3) ==
    IsizePxlIsNarrow(xy1) /\ IsizePxlIsNarrow(xy2) /\ IsizePxlIsNarrow(xy3)
    /\ StageIsNarrow(S)

\* fill_triangle on vertices that are pairs of isize
fill_triangle_wide(S, xy1, xy2, xy3, fill_color) ==
    IF S.panicked THEN S
    ELSE IF TriangleIsNarrow(S, xy1, xy2, xy3)
    THEN fill_triangle_narrow(S, PxlOf(xy1), PxlOf(xy2), PxlOf(xy3), fill_color)
    ELSE FillPlanWide(S, FillSortedWide(sort_vertices_wide(xy1, xy2, xy3)), fill_color)

\* fill_triangle on vertices that are pairs of model integers
fill_triangle(S, xy1, xy2, xy3, fill_color) ==
    fill_triangle_wide(S, IsizePxl(xy1), IsizePxl(xy2), IsizePxl(xy3), fill_color)

\* The edges k.. of a triangle (1: xy1-xy2, 2: xy2-xy3, 3: xy3-xy1), drawn
\* by line_px (guarded = FALSE) or by draw_line (guarded = TRUE) with the
\* clip in i64.
RECURSIVE EdgesWide(_, _, _, _, _)
EdgesWide(S, v, k, col, guarded) ==
    IF S.panicked \/ k > 3 THEN S
    ELSE EdgesWide(LineClippedWide(S, v[k], v[(k % 3) + 1], col, guarded),
                   v, k + 1, col, guarded)

\* The fill of a triangle at full width, if the style has one.
TriangleFillWide(S, xy1_px, xy2_px, xy3_px, style) ==
    IF IsSome(style.fill)
    THEN FillPlanWide(S, FillSortedWide(sort_vertices_wide(xy1_px, xy2_px, xy3_px)),
                      Fill_rgba(Unwrap(style.fill)))
    ELSE S

\* triangle and draw_triangle_pxl on three pixel vertices at full width: the
\* fill, then the edges.
TrianglePxlWide(S, xy1_px, xy2_px, xy3_px, style, guarded) ==
    IF IsSome(style.stroke)
    THEN EdgesWide(TriangleFillWide(S, xy1_px, xy2_px, xy3_px, style),
                   <<xy1_px, xy2_px, xy3_px>>, 1,
                   Stroke_rgba(Unwrap(style.stroke)), guarded)
    ELSE TriangleFillWide(S, xy1_px, xy2_px, xy3_px, style)

\* The fill of a triangle on narrow vertices, if the style has one.
TriangleFill(S, xy1_px, xy2_px, xy3_px, style) ==
    IF IsSome(style.fill)
    THEN fill_triangle_narrow(S, xy1_px, xy2_px, xy3_px, Fill_rgba(Unwrap(style.fill)))
    ELSE S

\* The three edges of triangle, drawn by line_px.
TriangleEdges(S, xy1_px, xy2_px, xy3_px, col) ==
    line_px_narrow(line_px_narrow(line_px_narrow(S, xy1_px, xy2_px, col),
                                  xy2_px, xy3_px, col),
                   xy3_px, xy1_px, col)

\* triangle on its three pixel vertices (narrow).
TrianglePxl(S, xy1_px, xy2_px, xy3_px, style) ==
    IF IsSome(style.stroke)
    THEN TriangleEdges(TriangleFill(S, xy1_px, xy2_px, xy3_px, style),
                       xy1_px, xy2_px, xy3_px, Stroke_rgba(Unwrap(style.stroke)))
    ELSE TriangleFill(S, xy1_px, xy2_px, xy3_px, style)

\* triangle once the vertices are converted: p1, p2 and p3 are Options.
TriangleBetween(S, p1, p2, p3, style) ==
    IF ~IsSome(p1) THEN S
    ELSE IF ~IsSome(p2) THEN S
    ELSE IF ~IsSome(p3) THEN S
    ELSE IF TriangleIsNarrow(S, Unwrap(p1), Unwrap(p2), Unwrap(p3))
    THEN TrianglePxl(S, PxlOf(Unwrap(p1)), PxlOf(Unwrap(p2)), PxlOf(Unwrap(p3)), style)
    ELSE TrianglePxlWide(S, Unwrap(p1), Unwrap(p2), Unwrap(p3), style, FALSE)

\* triangle: fill, then the three edges, between three world points.
triangle(S, xy1, xy2, xy3, style) ==
    IF S.panicked \/ ~fill_or_stroke_exists(style) THEN S
    ELSE TriangleBetween(S, world_to_pixel(S, xy1[1], xy1[2]),
                         world_to_pixel(S, xy2[1], xy2[2]),
                         world_to_pixel(S, xy3[1], xy3[2]), style)

\* SQRT_3 of shapes/triangles.rs: the f32 nearest to 1.7320508.
SQRT_3 == Fin(14529495, 0 - 23)

\* equilateral_triangle once its offsets are computed: half is half the side,
\* apex_dy and base_dy the heights of the apex and of the base about the
\* centre (xc, yc).
EquilateralCorners(S, xc, yc, half, apex_dy, base_dy, style) ==
    triangle(S, <<xc, F32Add(yc, apex_dy)>>,
             <<F32Sub(xc, half), F32Sub(yc, base_dy)>>,
             <<F32Add(xc, half), F32Sub(yc, base_dy)>>, style)

\* equilateral_triangle: the triangle about origin with the given side.
equilateral_triangle(S, origin, side_length, style) ==
    IF S.panicked \/ ~is_finite(side_length) \/ F32Le(side_length, F32Zero) THEN S
    ELSE EquilateralCorners(S, origin[1], origin[2], F32Scale2(side_length, 0 - 1),
                            F32Mul(F32Div(SQRT_3, Fin(3, 0)), side_length),
                            F32Mul(F32Div(SQRT_3, Fin(6, 0)), side_length), style)

\* --------------------------------------------------------------------- Path
\* Style::make_fill and Style::make_stroke
make_fill(fill_color) == [fill |-> Some(Fill_new(fill_color, OPAQUE)), stroke |-> None]
make_stroke(stroke_color) ==
    [fill |-> None, stroke |-> Some(Stroke_new(stroke_color, OPAQUE, F32One))]

\* The three edges of draw_triangle_pxl, drawn by draw_line.
TriangleLines(S, xy1, xy2, xy3, col) ==
    draw_line_narrow(draw_line_narrow(draw_line_narrow(S, xy1, xy2, col), xy2, xy3, col),
                     xy3, xy1, col)

\* draw_triangle_pxl of primitives/triangle.rs on narrow vertices
draw_triangle_pxl_narrow(S, xy1, xy2, xy3, style) ==
    IF S.panicked \/ ~fill_or_stroke_exists(style) THEN S
    ELSE IF IsSome(style.stroke)
    THEN TriangleLines(TriangleFill(S, xy1, xy2, xy3, style), xy1, xy2, xy3,
                       Stroke_rgba(Unwrap(style.stroke)))
    ELSE TriangleFill(S, xy1, xy2, xy3, style)

\* draw_triangle_pxl on vertices that are pairs of isize
draw_triangle_pxl_wide(S, xy1, xy2, xy3, style) ==
    IF S.panicked \/ ~fill_or_stroke_exists(style) THEN S
    ELSE IF TriangleIsNarrow(S, xy1, xy2, xy3)
    THEN draw_triangle_pxl_narrow(S, PxlOf(xy1), PxlOf(xy2), PxlOf(xy3), style)
    ELSE TrianglePxlWide(S, xy1, xy2, xy3, style, TRUE)

\* draw_triangle_pxl on vertices that are pairs of model integers
draw_triangle_pxl(S, xy1, xy2, xy3, style) ==
    draw_triangle_pxl_wide(S, IsizePxl(xy1), IsizePxl(xy2), IsizePxl(xy3), style)

\* A Path is [nodes, closed]: world points in order, and whether the last
\* connects back to the first.
Path_new(nodes, closed) == [nodes |-> nodes, closed |-> closed]

\* Slip: nodes without a pixel are left out.
to_pxls_valid(path, S) ==
    LET px == [i \in 1..Len(path.nodes) |->
                  world_to_pixel(S, path.nodes[i][1], path.nodes[i][2])]
        ok == SelectSeq(px, LAMBDA o : IsSome(o))
    IN  Some([i \in 1..Len(ok) |-> Unwrap(ok[i])])

\* Path::to_pxls: the nodes as pixels, each a pair of isize as world_to_pixel
\* returns it, or None if one has none.
to_pxls(path, S) ==
    LET px == [i \in 1..Len(path.nodes) |->
                  world_to_pixel(S, path.nodes[i][1], path.nodes[i][2])]
    IN  IF \E i \in 1..Len(px) : ~IsSome(px[i]) THEN None
        ELSE Some([i \in 1..Len(px) |-> Unwrap(px[i])])

\* `n as f32` on a model integer, and `v as isize` (a model integer when
\* the result is IsizeIsSmall).
IntToF32(n) == F32Round(Sign(n), Abs(n), 0, FALSE)
F32ToInt(v) == IsizeToInt(F32ToIsize(v))

\* y_bound: least and greatest y of the nodes.
y_bound(nodes_px) ==
    LET ys == {nodes_px[i][2] : i \in 1..Len(nodes_px)}
    IN  <<CHOOSE y \in ys : \A z \in ys : y <= z,
          CHOOSE y \in ys : \A z \in ys : y >= z>>

\* The crossing of scanline y with the edge p-q, pushed by make_fill_pxl:
\* empty for a horizontal edge and outside [min y, max y).
EdgeCrossing(y, p, q) ==
    IF p[2] # q[2] /\ y >= Min(p[2], q[2]) /\ y < Max(p[2], q[2])
    THEN LET x1f == IntToF32(p[1])
             x2f == IntToF32(q[1])
             y1f == IntToF32(p[2])
             y2f == IntToF32(q[2])
             x == F32Add(x1f, F32Div(F32Mul(F32Sub(IntToF32(y), y1f), F32Sub(x2f, x1f)),
                                     F32Sub(y2f, y1f)))
         IN  <<F32ToInt(floor(x))>>
    ELSE <<>>

\* Slip: the closing edge is left out of the crossings.
RECURSIVE CrossingsOpen(_, _, _)
CrossingsOpen(nodes_px, y, i) ==
    IF i + 1 <= Len(nodes_px)
    THEN EdgeCrossing(y, nodes_px[i], nodes_px[i + 1]) \o CrossingsOpen(nodes_px, y, i + 1)
    ELSE <<>>

\* The crossings of the edges i, i+1, ... in order, the closing edge last.
RECURSIVE Crossings(_, _, _)
Crossings(nodes_px, y, i) ==
    IF i + 1 <= Len(nodes_px)
    THEN EdgeCrossing(y, nodes_px[i], nodes_px[i + 1]) \o Crossings(nodes_px, y, i + 1)
    ELSE EdgeCrossing(y, nodes_px[Len(nodes_px)], nodes_px[1])

\* sort_unstable on integers: ascending order.
RECURSIVE sort_unstable(_)
sort_unstable(v) ==
    IF Len(v) <= 1 THEN v
    ELSE LET rest == sort_unstable(Tail(v))
             below == SelectSeq(rest, LAMBDA x : x < Head(v))
             above == SelectSeq(rest, LAMBDA x : x >= Head(v))
         IN  below \o <<Head(v)>> \o above

\* Slip: the span includes the two crossing pixels.
RECURSIVE FillPairsClosed(_, _, _, _, _)
FillPairsClosed(S, y, crossings, j, fill_color) ==
    IF ~S.panicked /\ j + 1 <= Len(crossings)
    THEN FillPairsClosed(fill_span(S, y, crossings[j], crossings[j + 1], fill_color),
                         y, crossings, j + 2, fill_color)
    ELSE S

\* Slip: the span starts on the left crossing pixel.
RECURSIVE FillPairsLeft(_, _, _, _, _)
FillPairsLeft(S, y, crossings, j, fill_color) ==
    IF ~S.panicked /\ j + 1 <= Len(crossings)
    THEN FillPairsLeft(fill_span(S, y, crossings[j], crossings[j + 1] - 1, fill_color),
                       y, crossings, j + 2, fill_color)
    ELSE S

\* The loop over the pairs of crossings, from the pair at j (1-based).
RECURSIVE FillPairs(_, _, _, _, _)
FillPairs(S, y, crossings, j, fill_color) ==
    IF ~S.panicked /\ j + 1 <= Len(crossings)
    THEN LET l == crossings[j] + 1
             r == crossings[j + 1] - 1
         IN  FillPairs(IF l <= r THEN fill_span(S, y, l, r, fill_color) ELSE S,
                       y, crossings, j + 2, fill_color)
    ELSE S

\* One scanline of make_fill_pxl from its sorted crossings:
\* `debug_assert!(crossings.len() % 2 == 0)`, then the pairs.
FillRow(S, y, crossings, fill_color) ==
    IF OverflowChecks /\ Len(crossings) % 2 # 0 THEN Panic(S)
    ELSE FillPairs(S, y, crossings, 1, fill_color)

\* The loop over the scanlines y..y1 of make_fill_pxl.
RECURSIVE FillRows(_, _, _, _, _)
FillRows(S, nodes_px, y, y1, fill_color) ==
    IF S.panicked \/ y > y1 THEN S
    ELSE FillRows(FillRow(S, y, sort_unstable(Crossings(nodes_px, y, 1)), fill_color),
                  nodes_px, y + 1, y1, fill_color)

\* Path::make_fill_pxl on narrow pixels
make_fill_pxl_narrow(nodes_px, S, fill_color) ==
    IF S.panicked \/ Len(nodes_px) < 3 THEN S
    ELSE LET b == y_bound(nodes_px)
         IN  IF b[1] >= b[2] THEN S
             ELSE LET y0 == Max(b[1], 0)
                      y1 == Min(b[2], S.height - 1)
                  IN  IF y0 > y1 THEN S
                      ELSE FillRows(S, nodes_px, y0, y1, fill_color)

\* make_fill_pxl on pixels held at their full width: y_bound
RECURSIVE YBoundWide(_, _, _, _)
YBoundWide(nodes_px, i, ymin, ymax) ==
    IF i > Len(nodes_px) THEN <<ymin, ymax>>
    ELSE YBoundWide(nodes_px, i + 1, IsizeMin(ymin, nodes_px[i][2]),
                    IsizeMax(ymax, nodes_px[i][2]))

y_bound_wide(nodes_px) == YBoundWide(nodes_px, 2, nodes_px[1][2], nodes_px[1][2])

\* The x of the crossing of scanline y with the edge p-q.
CrossingX(yf, x1f, y1f, x2f, y2f) ==
    F32Add(x1f, F32Div(F32Mul(F32Sub(yf, y1f), F32Sub(x2f, x1f)), F32Sub(y2f, y1f)))

EdgeCrossingWide(y, p, q) ==
    IF ~IsizeEq(p[2], q[2]) /\ IsizeLe(IsizeMin(p[2], q[2]), IsizeOf(y))
                            /\ IsizeLt(IsizeOf(y), IsizeMax(p[2], q[2]))
    THEN <<F32ToIsize(floor(CrossingX(IntToF32(y), IsizeToF32(p[1]), IsizeToF32(p[2]),
                                      IsizeToF32(q[1]), IsizeToF32(q[2]))))>>
    ELSE <<>>

RECURSIVE CrossingsWide(_, _, _)
CrossingsWide(nodes_px, y, i) ==
    IF i + 1 <= Len(nodes_px)
    THEN EdgeCrossingWide(y, nodes_px[i], nodes_px[i + 1]) \o CrossingsWide(nodes_px, y, i + 1)
    ELSE EdgeCrossingWide(y, nodes_px[Len(nodes_px)], nodes_px[1])

RECURSIVE sort_unstable_wide(_)
sort_unstable_wide(v) ==
    IF Len(v) <= 1 THEN v
    ELSE LET rest == sort_unstable_wide(Tail(v))
             below == SelectSeq(rest, LAMBDA x : IsizeLt(x, Head(v)))
             above == SelectSeq(rest, LAMBDA x : ~IsizeLt(x, Head(v)))
         IN  below \o <<Head(v)>> \o above

RECURSIVE FillPairsWide(_, _, _, _, _)

\* One pair of crossings: l = x1 + 1 and r = x2 - 1 are results of `+`, `-`.
FillPairWide(S, y, crossings, j, fill_color, l, r) ==
    IF ~Checked(l) \/ ~Checked(r) THEN Panic(S)
    ELSE FillPairsWide(IF IsizeLe(l.v, r.v)
                       THEN fill_span_wide(S, IsizeOf(y), l.v, r.v, fill_color)
                       ELSE S,
                       y, crossings, j + 2, fill_color)

FillPairsWide(S, y, crossings, j, fill_color) ==
    IF ~S.panicked /\ j + 1 <= Len(crossings)
    THEN FillPairWide(S, y, crossings, j, fill_color,
                      overflowing_add(crossings[j], IsizeOf(1)),
                      overflowing_sub(crossings[j + 1], IsizeOf(1)))
    ELSE S

FillRowWide(S, y, crossings, fill_color) ==
    IF OverflowChecks /\ Len(crossings) % 2 # 0 THEN Panic(S)
    ELSE FillPairsWide(S, y, crossings, 1, fill_color)

\* The scanlines y..y1 lie on the stage.
RECURSIVE FillRowsWide(_, _, _, _, _)
FillRowsWide(S, nodes_px, y, y1, fill_color) ==
    IF S.panicked \/ y > y1 THEN S
    ELSE FillRowsWide(FillRowWide(S, y, sort_unstable_wide(CrossingsWide(nodes_px, y, 1)),
                                  fill_color),
                      nodes_px, y + 1, y1, fill_color)

FillBoundsWide(S, nodes_px, y0, y1, fill_color) ==
    IF IsizeLt(y1, y0) THEN S
    ELSE FillRowsWide(S, nodes_px, IsizeToInt(y0), IsizeToInt(y1), fill_color)

FillBoundWide(S, nodes_px, b, fill_color) ==
    IF ~IsizeLt(b[1], b[2]) THEN S
    ELSE FillBoundsWide(S, nodes_px, IsizeMax(b[1], IsizeOf(0)),
                        IsizeMin(b[2], IsizeOf(S.height - 1)), fill_color)

\* The pixels of a path as pairs of isize and as pairs of model integers,
\* and whether they are narrow.
IsizePxls(nodes_px) == [i \in 1..Len(nodes_px) |-> IsizePxl(nodes_px[i])]
PxlsOf(nodes_px) == [i \in 1..Len(nodes_px) |-> PxlOf(nodes_px[i])]
IsizePxlsAreNarrow(nodes_px) == \A i \in 1..Len(nodes_px) : IsizePxlIsNarrow(nodes_px[i])

\* Path::make_fill_pxl on pixels that are pairs of isize
make_fill_pxl_wide(nodes_px, S, fill_color) ==
    IF S.panicked \/ Len(nodes_px) < 3 THEN S
    ELSE IF IsizePxlsAreNarrow(nodes_px) /\ StageIsNarrow(S)
    THEN make_fill_pxl_narrow(PxlsOf(nodes_px), S, fill_color)
    ELSE FillBoundWide(S, nodes_px, y_bound_wide(nodes_px), fill_color)

\* Path::make_fill_pxl on pixels that are pairs of model integers
make_fill_pxl(nodes_px, S, fill_color) ==
    make_fill_pxl_wide(IsizePxls(nodes_px), S, fill_color)

\* A corner coordinate of stroke_corners: `.round() as isize`.
CornerCoord(v) == F32ToIsize(round(v))

\* The corners a, b, c, d of stroke_corners from the end points, the extension
\* (ex, ey) along the segment and the offset (ox, oy) across it.
CornersOffset(x1, y1, x2, y2, ex, ey, ox, oy) ==
    Some(<<(<<CornerCoord(F32Add(F32Sub(x1, ex), ox)),
              CornerCoord(F32Add(F32Sub(y1, ey), oy))>>),
           (<<CornerCoord(F32Add(F32Add(x2, ex), ox)),
              CornerCoord(F32Add(F32Add(y2, ey), oy))>>),
           (<<CornerCoord(F32Sub(F32Add(x2, ex), ox)),
              CornerCoord(F32Sub(F32Add(y2, ey), oy))>>),
           (<<CornerCoord(F32Sub(F32Sub(x1, ex), ox)),
              CornerCoord(F32Sub(F32Sub(y1, ey), oy))>>)>>)

\* stroke_corners from the unit tangent (tx, ty) and the half width r: the
\* normal is (nx, ny) = (-ty, tx).
CornersOfTangent(x1, y1, x2, y2, tx, ty, r) ==
    CornersOffset(x1, y1, x2, y2, F32Mul(tx, r), F32Mul(ty, r),
                  F32Mul(F32Neg(ty), r), F32Mul(tx, r))

\* stroke_corners from the squared length len2 of (dx, dy).
CornersOfLength(x1, y1, x2, y2, dx, dy, len2, inv_len, w) ==
    IF len2.k = "fin" /\ len2.m = 0 THEN None
    ELSE CornersOfTangent(x1, y1, x2, y2, F32Mul(dx, inv_len), F32Mul(dy, inv_len),
                          F32Scale2(w, 0 - 1))

\* inv_len of stroke_corners: `len2.sqrt().recip()`.
InvLen(len2) == recip(sqrt(len2))

\* stroke_corners from the segment's direction (dx, dy).
CornersOfDelta(x1, y1, x2, y2, dx, dy, len2, w) ==
    CornersOfLength(x1, y1, x2, y2, dx, dy, len2, InvLen(len2), w)

\* len2 of stroke_corners: `dx * dx + dy * dy`.
Len2(dx, dy) == F32Add(F32Mul(dx, dx), F32Mul(dy, dy))

\* stroke_corners on the end points as f32.
CornersBetween(x1, y1, x2, y2, dx, dy, w) ==
    CornersOfDelta(x1, y1, x2, y2, dx, dy, Len2(dx, dy), w)

\* The end points of stroke_corners as f32.
CornersOfEnds(x1, y1, x2, y2, w) ==
    CornersBetween(x1, y1, x2, y2, F32Sub(x2, x1), F32Sub(y2, y1), w)

\* stroke_corners on the end points as f32: the four corners of the quad
\* about the segment, each a pair of isize, or None.
CornersOf(x1, y1, x2, y2, w) ==
    IF ~is_finite(w) \/ F32Le(w, F32Zero) THEN None
    ELSE CornersOfEnds(x1, y1, x2, y2, w)

\* stroke_corners on end points held at their full width
stroke_corners_wide(xy1, xy2, w) ==
    CornersOf(IsizeToF32(xy1[1]), IsizeToF32(xy1[2]),
              IsizeToF32(xy2[1]), IsizeToF32(xy2[2]), w)

\* The corners as pairs of model integers (PxlOf).
CornersPxl(q) == IF IsSome(q) THEN Some([i \in 1..4 |-> PxlOf(Unwrap(q)[i])]) ELSE None

\* stroke_corners
stroke_corners(xy1, xy2, w) ==
    CornersPxl(CornersOf(IntToF32(xy1[1]), IntToF32(xy1[2]),
                         IntToF32(xy2[1]), IntToF32(xy2[2]), w))

\* The triangles k.. of the quad with corners q: (a, b, c), then (a, c, d).
RECURSIVE QuadTriangles(_, _, _, _)
QuadTriangles(S, q, k, style) ==
    IF S.panicked \/ k > 2 THEN S
    ELSE QuadTriangles(draw_triangle_pxl_wide(S, q[1], q[k + 1], q[k + 2], style),
                       q, k + 1, style)

\* The quad q of a thick segment as two triangles; q is the Option of
\* stroke_corners, the corners pairs of isize.
ThickQuad(S, q, style) ==
    IF S.panicked \/ ~IsSome(q) THEN S
    ELSE QuadTriangles(S, Unwrap(q), 1, style)

\* One segment of a thick stroke: the quad as two triangles.
ThickSegment(S, xy1, xy2, w, style) == ThickQuad(S, stroke_corners_wide(xy1, xy2, w), style)

\* One segment of make_stroke_pxl; thick tells which of the two branches.
StrokeSegment(S, xy1, xy2, thick, w, stroke_color) ==
    IF thick THEN ThickSegment(S, xy1, xy2, w, make_fill(stroke_color))
    ELSE draw_line_wide(S, xy1, xy2, stroke_color)

\* Slip: the closing segment is never drawn.
RECURSIVE StrokeSegmentsOpen(_, _, _, _, _, _, _)
StrokeSegmentsOpen(S, nodes_px, i, closed, thick, w, stroke_color) ==
    IF S.panicked THEN S
    ELSE IF i + 1 <= Len(nodes_px)
    THEN StrokeSegmentsOpen(
             StrokeSegment(S, nodes_px[i], nodes_px[i + 1], thick, w, stroke_color),
             nodes_px, i + 1, closed, thick, w, stroke_color)
    ELSE S

\* The loop `while i + 1 < len` of make_stroke_pxl over the segments from
\* node i (1-based), and after it the closing segment of a closed path.
RECURSIVE StrokeSegments(_, _, _, _, _, _, _)
StrokeSegments(S, nodes_px, i, closed, thick, w, stroke_color) ==
    IF S.panicked THEN S
    ELSE IF i + 1 <= Len(nodes_px) \/ (i = Len(nodes_px) /\ closed)
    THEN StrokeSegments(
             StrokeSegment(S, nodes_px[i],
                           nodes_px[IF i + 1 <= Len(nodes_px) THEN i + 1 ELSE 1],
                           thick, w, stroke_color),
             nodes_px, i + 1, closed, thick, w, stroke_color)
    ELSE S

\* Path::make_stroke_pxl on pixels that are pairs of isize
make_stroke_pxl_wide(nodes_px, closed, w, S, stroke_color) ==
    IF S.panicked \/ Len(nodes_px) < 2 THEN S
    ELSE IF ~is_finite(w) \/ F32Le(w, F32Zero) THEN S
    ELSE StrokeSegments(S, nodes_px, 1, closed, ~F32Le(w, F32One), w, stroke_color)

\* Path::make_stroke_pxl on pixels that are pairs of model integers
make_stroke_pxl(nodes_px, closed, w, S, stroke_color) ==
    make_stroke_pxl_wide(IsizePxls(nodes_px), closed, w, S, stroke_color)

\* The fill step of render on the converted nodes.
RenderFill(closed, S, style, nodes_px) ==
    IF closed /\ IsSome(style.fill)
    THEN make_fill_pxl_wide(nodes_px, S, Fill_rgba(Unwrap(style.fill)))
    ELSE S

\* The stroke step of render on the converted nodes and the filled stage.
RenderStroke(closed, S, style, nodes_px) ==
    IF IsSome(style.stroke)
    THEN make_stroke_pxl_wide(nodes_px, closed, Unwrap(style.stroke).width, S,
                              Stroke_rgba(Unwrap(style.stroke)))
    ELSE S

\* Slip: the stroke is drawn first and the fill over it.
RenderPixelsStrokeFirst(closed, S, style, nodes_px) ==
    IF S.panicked \/ ~IsSome(nodes_px) THEN S
    ELSE IF ~fill_or_stroke_exists(style) THEN S
    ELSE RenderFill(closed, RenderStroke(closed, S, style, Unwrap(nodes_px)),
                    style, Unwrap(nodes_px))

\* render once the nodes are converted: nodes_px is to_pxls' Option.
RenderPixels(closed, S, style, nodes_px) ==
    IF S.panicked \/ ~IsSome(nodes_px) THEN S
    ELSE IF ~fill_or_stroke_exists(style) THEN S
    ELSE RenderStroke(closed, RenderFill(closed, S, style, Unwrap(nodes_px)),
                      style, Unwrap(nodes_px))

\* Path::render
render(path, S, style) == RenderPixels(path.closed, S, style, to_pxls(path, S))

\* The closed Path of rectangle and square through the corners of the box
\* with edges l, r, t, b.
RenderBox(S, l, r, t, b, style) ==
    render(Path_new(<<(<<l, t>>), (<<r, t>>), (<<r, b>>), (<<l, b>>)>>, TRUE), S, style)

\* The box about origin with half extents whalf and hhalf, each edge clamped
\* to the stage's half extents.
ClampedBox(S, origin, whalf, hhalf, min_x, max_x, min_y, max_y, style) ==
    RenderBox(S, F32Max(F32Sub(origin[1], whalf), min_x),
              F32Min(F32Add(origin[1], whalf), max_x),
              F32Min(F32Add(origin[2], hhalf), max_y),
              F32Max(F32Sub(origin[2], hhalf), min_y), style)

\* The stage's half extents of rectangle and square: stage_width and
\* stage_height are the stage's sizes as f32.
StageBox(S, origin, whalf, hhalf, stage_width, stage_height, style) ==
    ClampedBox(S, origin, whalf, hhalf,
               F32Scale2(F32Neg(stage_width), 0 - 1), F32Scale2(stage_width, 0 - 1),
               F32Scale2(F32Neg(stage_height), 0 - 1), F32Scale2(stage_height, 0 - 1),
               style)

\* rectangle of shapes/polygons.rs: a closed Path through the four corners,
\* each clamped to the stage's half extents.
rectangle(S, origin, w, h, style) ==
    IF S.panicked \/ ~is_finite(h) \/ F32Le(h, F32Zero) \/ ~is_finite(w) \/ F32Le(w, F32Zero) THEN S
    ELSE StageBox(S, origin, F32Scale2(w, 0 - 1), F32Scale2(h, 0 - 1),
                  UsizeToF32(S.width), UsizeToF32(S.height), style)

\* square of shapes/polygons.rs
square(S, origin, side_length, style) ==
    IF S.panicked \/ ~is_finite(side_length) \/ F32Le(side_length, F32Zero) THEN S
    ELSE StageBox(S, origin, F32Scale2(side_length, 0 - 1), F32Scale2(side_length, 0 - 1),
                  UsizeToF32(S.width), UsizeToF32(S.height), style)

\* equilateral_triangle of shapes/polygons.rs once its offsets are computed:
\* the closed Path through the apex (xc, yapex) and the two ends of the base
\* at height ybase.
EquilateralPath(S, xc, half, yapex, ybase, style) ==
    render(Path_new(<<(<<xc, yapex>>), (<<F32Sub(xc, half), ybase>>),
                      (<<F32Add(xc, half), ybase>>)>>, TRUE), S, style)

\* SQRT3 of shapes/polygons.rs: the f32 nearest to 1.7320508.
SQRT3 == Fin(14529495, 0 - 23)

\* equilateral_triangle of shapes/polygons.rs
polygons_equilateral_triangle(S, origin, side_length, style) ==
    IF S.panicked \/ ~is_finite(side_length) \/ F32Le(side_length, F32Zero) THEN S
    ELSE EquilateralPath(S, origin[1], F32Scale2(side_length, 0 - 1),
                         F32Add(origin[2], F32Mul(F32Div(SQRT3, Fin(3, 0)), side_length)),
                         F32Sub(origin[2], F32Mul(F32Div(SQRT3, Fin(6, 0)), side_length)),
                         style)

\* rectangle and square of shapes/rectangles.rs, the two that shapes/mod.rs
\* exports.  Their Style is the record [color, fill]: one colour, for the four
\* sides and, when fill is set, for the interior.
\*
\* One statement after another: F of the value the statement before left.
Then(S, F(_)) == CHOOSE R \in {F(T) : T \in {S}} : TRUE

\* The rows y..y1 of the interior, each a fill_span from x0 to x1.
RECURSIVE InteriorRows(_, _, _, _, _, _)
InteriorRows(S, y, y1, x0, x1, color) ==
    IF S.panicked \/ y > y1 THEN S
    ELSE Then(fill_span(S, y, x0, x1, color), LAMBDA S1 :
              InteriorRows(S1, y + 1, y1, x0, x1, color))

RECURSIVE InteriorRowsWide(_, _, _, _, _, _)
InteriorRowsWide(S, y, y1, x0, x1, color) ==
    IF S.panicked \/ y > y1 THEN S
    ELSE Then(fill_span_wide(S, IsizeOf(y), x0, x1, color), LAMBDA S1 :
              InteriorRowsWide(S1, y + 1, y1, x0, x1, color))

\* `if style.fill { ... }`: the interior of the box with sides l, r, t0, b0,
\* on narrow values.
RectangleInterior(S, l, r, t0, b0, y_max, style) ==
    IF S.panicked \/ ~style.fill THEN S
    ELSE IF l + 1 <= r - 1 /\ Max(t0 + 1, 0) <= Min(b0 - 1, y_max)
         THEN InteriorRows(S, Max(t0 + 1, 0), Min(b0 - 1, y_max), l + 1, r - 1,
                           rgba(style.color))
         ELSE S

\* The four sides, top, bottom, left and right, and then the interior.
RectangleSides(S, l, r, t0, b0, y_max, style) ==
    Then(line_px(S, <<l, t0>>, <<r, t0>>, style.color), LAMBDA S1 :
    Then(line_px(S1, <<l, b0>>, <<r, b0>>, style.color), LAMBDA S2 :
    Then(line_px(S2, <<l, t0>>, <<l, b0>>, style.color), LAMBDA S3 :
    Then(line_px(S3, <<r, t0>>, <<r, b0>>, style.color), LAMBDA S4 :
         RectangleInterior(S4, l, r, t0, b0, y_max, style)))))

\* rectangle past its two early returns, on narrow values: a box of w by h
\* pixels about the pixel (xc, yc).
RectangleAboutNarrow(S, xc, yc, w, h, style) ==
    LET l == xc - w \div 2
        r == l + (w - 1)
        t0 == yc - h \div 2
        b0 == t0 + (h - 1)
        y_max == S.height - 1
    IN  IF Max(t0, 0) > Min(b0, y_max) THEN S
        ELSE RectangleSides(S, l, r, t0, b0, y_max, style)

\* The same at full width, each `+` and `-` with its overflow.
RectangleInteriorWide(S, l, r, t0, b0, y_min, y_max, style) ==
    IF S.panicked \/ ~style.fill THEN S
    ELSE LET x0 == overflowing_add(l, IsizeOf(1))
             x1 == overflowing_sub(r, IsizeOf(1))
             t1 == overflowing_add(t0, IsizeOf(1))
             b1 == overflowing_sub(b0, IsizeOf(1))
             y0 == IsizeMax(t1.v, y_min)
             y1 == IsizeMin(b1.v, y_max)
         IN  IF OverflowChecks /\ (x0.o \/ x1.o \/ t1.o \/ b1.o) THEN Panic(S)
             ELSE IF IsizeLe(x0.v, x1.v) /\ IsizeLe(y0, y1)
             THEN InteriorRowsWide(S, IsizeToInt(y0), IsizeToInt(y1), x0.v, x1.v,
                                   rgba(style.color))
             ELSE S

RectangleSidesWide(S, l, r, t0, b0, y_min, y_max, style) ==
    Then(line_px_wide(S, <<l, t0>>, <<r, t0>>, style.color), LAMBDA S1 :
    Then(line_px_wide(S1, <<l, b0>>, <<r, b0>>, style.color), LAMBDA S2 :
    Then(line_px_wide(S2, <<l, t0>>, <<l, b0>>, style.color), LAMBDA S3 :
    Then(line_px_wide(S3, <<r, t0>>, <<r, b0>>, style.color), LAMBDA S4 :
         RectangleInteriorWide(S4, l, r, t0, b0, y_min, y_max, style)))))

RectangleAboutWide(S, xc, yc, w, h, style) ==
    LET half_w == I64Div(w, IsizeOf(2))
        half_h == I64Div(h, IsizeOf(2))
        l == overflowing_sub(xc, half_w)
        r == OAdd(l, overflowing_sub(w, IsizeOf(1)).v)
        t0 == overflowing_sub(yc, half_h)
        b0 == OAdd(t0, overflowing_sub(h, IsizeOf(1)).v)
        y_min == IsizeOf(0)
        y_max == IsizeOf(S.height - 1)
        t == IsizeMax(t0.v, y_min)
        b == IsizeMin(b0.v, y_max)
    IN  IF OverflowChecks /\ (r.o \/ b0.o) THEN Panic(S)
        ELSE IF IsizeLt(b, t) THEN S
        ELSE RectangleSidesWide(S, l.v, r.v, t0.v, b0.v, y_min, y_max, style)

\* rectangle past its two early returns: xc, yc, w and h are isize.
RectangleAbout(S, xc, yc, w, h, style) ==
    IF IsizeIsNarrow(xc) /\ IsizeIsNarrow(yc) /\ IsizeIsNarrow(w) /\ IsizeIsNarrow(h)
       /\ StageIsNarrow(S)
    THEN RectangleAboutNarrow(S, IsizeToInt(xc), IsizeToInt(yc), IsizeToInt(w),
                              IsizeToInt(h), style)
    ELSE RectangleAboutWide(S, xc, yc, w, h, style)

\* rectangle of shapes/rectangles.rs
rectangles_rectangle(S, origin, h, w, style) ==
    IF S.panicked \/ ~is_finite(h) \/ F32Le(h, F32Zero) \/ ~is_finite(w) \/ F32Le(w, F32Zero)
    THEN S
    ELSE LET c == world_to_pixel(S, origin[1], origin[2])
         IN  IF ~IsSome(c) THEN S
             ELSE RectangleAbout(S, Unwrap(c)[1], Unwrap(c)[2],
                                 F32ToIsize(F32Max(ceil(w), F32One)),
                                 F32ToIsize(F32Max(ceil(h), F32One)), style)

\* square of shapes/rectangles.rs
rectangles_square(S, origin, side_length, style) ==
    rectangles_rectangle(S, origin, side_length, side_length, style)

\* ------------------------------------------------------- the stage machine
Self ==
    [width |-> width, height |-> height, framebuf |-> framebuf,
     panicked |-> FALSE, aborted |-> FALSE, large |-> pc = "large"]

\* Install the stage value a call leaves behind.
Becomes(S) ==
    \E T \in {S} :
        /\ pc' = IF T.aborted THEN "aborted"
                 ELSE IF T.panicked THEN "panicked"
                 ELSE IF T.large THEN "large"
                 ELSE "live"
        /\ width' = T.width
        /\ height' = T.height
        /\ framebuf' = T.framebuf

\* usize arguments of Stage::new: the small dimensions, words so large that
\* the product overflows, words whose product is a usize that no Vec of
\* pixels can have for its length, and words whose product is a length only
\* a machine with the memory grants.
Pow2_32 == [i \in 1..USIZE_BYTES |-> IF i = 5 THEN 1 ELSE 0]
Pow2_63 == [i \in 1..USIZE_BYTES |-> IF i = 8 THEN 128 ELSE 0]
UsizeMax == [i \in 1..USIZE_BYTES |-> 255]

SmallDims == {d \in (0..MaxPixels) \X (0..MaxPixels) : d[1] * d[2] <= MaxPixels}

OverflowDims ==
    { <<Pow2_32, Pow2_32>>, <<Pow2_63, UsizeOf(2)>>, <<UsizeOf(2), Pow2_63>>,
      <<UsizeMax, UsizeOf(2)>>, <<UsizeMax, UsizeMax>>,
      <<UsizeMax, UsizeOf(0)>>, <<UsizeOf(0), Pow2_32>> }

\* Products 2^61 and 2^62 (4 bytes a pixel: more than isize::MAX bytes).
UnallocatedDims ==
    { <<Pow2_32, UsizeOf(536870912)>>, <<UsizeOf(1073741824), Pow2_32>> }

\* Products of 2^31 and more, below 2^61: 2^31 (8 GiB) as 65536 x 32768, as
\* one row and as one column, 46341^2, and 2^32.
Pow2_31 == [i \in 1..USIZE_BYTES |-> IF i = 4 THEN 128 ELSE 0]

LargeDims ==
    { <<UsizeOf(65536), UsizeOf(32768)>>, <<Pow2_31, UsizeOf(1)>>,
      <<UsizeOf(1), Pow2_31>>, <<UsizeOf(46341), UsizeOf(46341)>>,
      <<Pow2_32, UsizeOf(1)>> }

NewArgs ==
    {<<UsizeOf(d[1]), UsizeOf(d[2])>> : d \in SmallDims} \cup OverflowDims
        \cup UnallocatedDims \cup LargeDims

\* A colour with a partial alpha, to tell a plain store from a blend.
HALF_BLUE == <<0, 0, 255, 128>>

DrawColors == {RED, HALF_BLUE}
ClearColors == {TRANSPARENT, RED, HALF_BLUE}

\* isize coordinates around the stage, and usize coordinates from 0.
\* (one step outside the stage on every side)
XsI == (0 - 1)..width
YsI == (0 - 1)..height
XsU == 0..width
YsU == 0..height

Init ==
    /\ pc = "start"
    /\ width = 0
    /\ height = 0
    /\ framebuf = <<>>
    /\ op = [name |-> "none"]

\* Stage::new: the allocator grants the request for the pixels or refuses it.
New ==
    /\ pc = "start"
    /\ \E a \in NewArgs, allocated \in BOOLEAN :
          /\ Becomes(new(a[1], a[2], allocated))
          /\ op' = [name |-> "new", w |-> a[1], h |-> a[2], allocated |-> allocated]

Clear ==
    /\ pc = "live"
    /\ \E c \in ClearColors :
          /\ Becomes(clear(Self, c))
          /\ op' = [name |-> "clear", color |-> c, before |-> framebuf]

SetPixel ==
    /\ pc = "live"
    /\ \E x \in XsU, y \in YsU, c \in DrawColors :
          /\ Becomes(set_pixel(Self, x, y, c))
          /\ op' = [name |-> "set_pixel", x |-> x, y |-> y, color |-> c]

GetPixel ==
    /\ pc = "live"
    /\ \E x \in XsU, y \in YsU :
          LET r == get_pixel(Self, x, y)
          IN  /\ Becomes(IF r.panicked THEN Panic(Self) ELSE Self)
              /\ op' = [name |-> "get_pixel", x |-> x, y |-> y, ret |-> r.ret]

Plot ==
    /\ pc = "live"
    /\ \E x \in XsI, y \in YsI, c \in DrawColors :
          /\ Becomes(plot(Self, x, y, c))
          /\ op' = [name |-> "plot", x |-> x, y |-> y, color |-> c]

FillSpan ==
    /\ pc = "live"
    /\ \E y \in YsI, x0 \in XsI, x1 \in XsI, c \in DrawColors :
          /\ Becomes(fill_span(Self, y, x0, x1, c))
          /\ op' = [name |-> "fill_span", y |-> y, x0 |-> x0, x1 |-> x1, color |-> c]

\* A caller of pixels_mut writes the slice: any pixels, each to any of the
\* colours.
PixelsMut ==
    /\ pc = "live"
    /\ \E px \in [1..Len(framebuf) -> ClearColors] :
          /\ Becomes(WriteThrough(Self, px))
          /\ op' = [name |-> "pixels_mut", before |-> framebuf]

Next == New \/ Clear \/ SetPixel \/ GetPixel \/ Plot \/ FillSpan \/ PixelsMut

Spec == Init /\ [][Next]_vars

\* ------------------------------------------ the stage of 2^31 pixels or more
\* Coordinates at the corners of a large stage and one step outside it: 0,
\* the last column or row and the dimension itself as usize; -1 with them as
\* isize.  The calls write red; clear writes red or transparent.
EdgesU(n) == {UsizeOf(0), UsizeSub(n, UsizeOf(1)), n}
EdgesI(n) == {IsizeOf(0 - 1)} \cup {[neg |-> FALSE, mag |-> u] : u \in EdgesU(n)}
InsideI(n) == {[neg |-> FALSE, mag |-> u] : u \in {UsizeOf(0), UsizeSub(n, UsizeOf(1))}}

ClearLarge ==
    /\ pc = "large"
    /\ \E c \in {TRANSPARENT, RED} :
          /\ Becomes(clear_large(Self, c))
          /\ op' = [name |-> "clear", color |-> c]

SetPixelLarge ==
    /\ pc = "large"
    /\ \E x \in EdgesU(width), y \in EdgesU(height) :
          /\ Becomes(set_pixel_large(Self, x, y, RED))
          /\ op' = [name |-> "set_pixel", x |-> x, y |-> y, color |-> RED]

GetPixelLarge ==
    /\ pc = "large"
    /\ \E x \in EdgesU(width), y \in EdgesU(height) :
          \E r \in {get_pixel_large(Self, x, y)} :
              /\ Becomes(IF r.panicked THEN Panic(Self) ELSE Self)
              /\ op' = [name |-> "get_pixel", x |-> x, y |-> y, ret |-> r.ret]

PlotLarge ==
    /\ pc = "large"
    /\ \E x \in EdgesI(width), y \in InsideI(height) :
          /\ Becomes(plot_large(Self, x, y, RED))
          /\ op' = [name |-> "plot", x |-> x, y |-> y, color |-> RED]

FillSpanLarge ==
    /\ pc = "large"
    /\ \E y \in EdgesI(height) \ {IsizeOf(0 - 1)},
          x0 \in EdgesI(width) \ {[neg |-> FALSE, mag |-> width]},
          x1 \in EdgesI(width) \ {IsizeOf(0 - 1)} :
          /\ Becomes(fill_span_large(Self, y, x0, x1, RED))
          /\ op' = [name |-> "fill_span", y |-> y, x0 |-> x0, x1 |-> x1, color |-> RED]

NextLarge == New \/ ClearLarge \/ SetPixelLarge \/ GetPixelLarge \/ PlotLarge \/ FillSpanLarge

SpecLarge == Init /\ [][NextLarge]_vars

\* ------------------------------------------------ world_to_pixel on a stage
\* World coordinates: the multiples of 1/4 up to MaxQuarters/4 in magnitude,
\* the two f32 next to 1/2 and -1/2 on the side of zero, the non-finite
\* values, and finite values at and around the limits of isize and of the
\* f32 mantissa.
MaxQuarters == 8

F32Small == {Fin(q, 0 - 2) : q \in (0 - MaxQuarters)..MaxQuarters}

F32Extreme ==
    { NaN, Inf(1), Inf(0 - 1),
      Fin(1, 63), Fin(0 - 1, 63), Fin(1, 62), Fin(1, 64),
      Fin(16777215, 39), Fin(0 - 8388609, 40),
      Fin(1, 24), Fin(8388609, 1), Fin(1, 100), Fin(16777215, 104) }

F32BelowHalf == {Fin(16777215, 0 - 25), Fin(0 - 16777215, 0 - 25)}

W2PInputs == F32Small \cup F32BelowHalf \cup F32Extreme

\* The stages world_to_pixel is applied to, freshly constructed: the small
\* ones, and stages whose sides are 2^24 (from where on an f32 no longer holds
\* every integer) and the odd numbers about it.
LiveDims == {d \in SmallDims : d[1] > 0 /\ d[2] > 0}

WideSide == Pow2(F32_MANT_BITS)

WideDims ==
    { <<WideSide - 1, WideSide - 1>>, <<WideSide, WideSide>>,
      <<WideSide + 1, WideSide - 1>>, <<WideSide - 1, WideSide + 1>>,
      <<WideSide + 3, WideSide + 3>> }

InitW2P ==
    \E d \in LiveDims \cup WideDims, x \in W2PInputs, y \in W2PInputs :
        \E T \in {new(UsizeOf(d[1]), UsizeOf(d[2]), TRUE)} :
            /\ pc = IF T.large THEN "large" ELSE "live"
            /\ width = T.width
            /\ height = T.height
            /\ framebuf = T.framebuf
            /\ op = [name |-> "args", x |-> x, y |-> y]

WorldToPixel ==
    /\ pc \in {"live", "large"}
    /\ op.name = "args"
    /\ op' = [name |-> "world_to_pixel", x |-> op.x, y |-> op.y,
              ret |-> world_to_pixel(Self, op.x, op.y)]
    /\ UNCHANGED <<pc, width, height, framebuf>>

NextW2P == WorldToPixel

SpecW2P == InitW2P /\ [][NextW2P]_vars

\* ------------------------------------------------------ Fill and Stroke colours
\* The colour and opacity a Fill or Stroke is resolved from: every alpha and
\* every opacity, on a colour whose three other channels differ.
InitStyle ==
    \E a \in 0..255, o \in 0..255 :
        /\ pc = "style"
        /\ width = 0
        /\ height = 0
        /\ framebuf = <<>>
        /\ op = [name |-> "args", color |-> <<255, 0, 7, a>>, opacity |-> o]

FillRgba ==
    /\ pc = "style"
    /\ op.name = "args"
    /\ op' = [name |-> "Fill::rgba", color |-> op.color, opacity |-> op.opacity,
              overflow |-> AlphaOverflows(op.color[4], op.opacity),
              ret |-> Fill_rgba(Fill_new(op.color, op.opacity))]
    /\ UNCHANGED <<pc, width, height, framebuf>>

StrokeRgba ==
    /\ pc = "style"
    /\ op.name = "args"
    /\ op' = [name |-> "Stroke::rgba", color |-> op.color, opacity |-> op.opacity,
              overflow |-> AlphaOverflows(op.color[4], op.opacity),
              ret |-> Stroke_rgba(Stroke_new(op.color, op.opacity, F32One))]
    /\ UNCHANGED <<pc, width, height, framebuf>>

NextStyle == FillRgba \/ StrokeRgba

SpecStyle == InitStyle /\ [][NextStyle]_vars

\* ------------------------------------------------------- drawing on a stage
\* The stage shapes are drawn on: freshly constructed, DrawSide pixels wide
\* and high.
DrawSide == 2

\* World points: four around the centre, one off the stage, one with a NaN
\* coordinate and one too far away to have a pixel.
PA == <<Fin(0 - 2, 0 - 2), Fin(2, 0 - 2)>>
PB == <<Fin(2, 0 - 2), Fin(0 - 2, 0 - 2)>>
PC == <<Fin(6, 0 - 2), Fin(2, 0 - 2)>>
PD == <<Fin(0 - 2, 0 - 2), Fin(0 - 2, 0 - 2)>>
PE == <<Fin(2, 0 - 2), Fin(2, 0 - 2)>>
PO == <<F32Zero, F32Zero>>
PN == <<NaN, F32Zero>>
PF == <<Fin(1, 64), F32Zero>>

\* Styles: nothing, a fill, a stroke with a partial alpha, both, and a stroke
\* two pixels wide.
NoStyle == Style_new(None, None)
FillRed == Style_new(Some(RED), None)
StrokeBlue == Style_new(None, Some(HALF_BLUE))
FillAndStroke == Style_new(Some(RED), Some(HALF_BLUE))
ThickStroke == [fill |-> None, stroke |-> Some(Stroke_new(RED, OPAQUE, Fin(2, 0)))]

\* The paths rendered, and the styles each is rendered with.
RenderPaths ==
    { Path_new(<<PD, PC>>, FALSE),
      Path_new(<<PA, PE, PB, PD>>, TRUE),
      Path_new(<<PA, PN, PB>>, TRUE),
      Path_new(<<PA, PF, PB>>, TRUE) }
RenderCalls ==
    (RenderPaths \X {NoStyle, FillAndStroke})
        \cup {<<Path_new(<<PA, PE>>, FALSE), ThickStroke>>}

InitDraw ==
    /\ pc = "live"
    /\ width = DrawSide
    /\ height = DrawSide
    /\ framebuf = new(UsizeOf(DrawSide), UsizeOf(DrawSide), TRUE).framebuf
    /\ op = [name |-> "none"]

Line ==
    /\ pc = "live"
    /\ \E xy1 \in {PA, PC, PN}, xy2 \in {PB, PA, PF}, style \in {NoStyle, StrokeBlue} :
          /\ Becomes(line(Self, xy1, xy2, style))
          /\ op' = [name |-> "line", xy1 |-> xy1, xy2 |-> xy2, style |-> style]

Circle ==
    /\ pc = "live"
    /\ \E origin \in {PO, PN, PF}, radius \in {Fin(1, 0), F32Zero, NaN},
          style \in {NoStyle, FillAndStroke} :
          /\ Becomes(circle(Self, origin, radius, style))
          /\ op' = [name |-> "circle", origin |-> origin, radius |-> radius,
                    style |-> style]

Triangle ==
    /\ pc = "live"
    /\ \E xy1 \in {PA, PN}, xy2 \in {PE, PC}, xy3 \in {PB, PF},
          style \in {NoStyle, FillAndStroke} :
          /\ Becomes(triangle(Self, xy1, xy2, xy3, style))
          /\ op' = [name |-> "triangle", xy1 |-> xy1, xy2 |-> xy2, xy3 |-> xy3,
                    style |-> style]

EquilateralTriangle ==
    /\ pc = "live"
    /\ \E origin \in {PO, PN}, side_length \in {Fin(2, 0), F32Zero},
          style \in {NoStyle, FillAndStroke} :
          /\ Becomes(equilateral_triangle(Self, origin, side_length, style))
          /\ op' = [name |-> "equilateral_triangle", origin |-> origin,
                    side_length |-> side_length, style |-> style]

Render ==
    /\ pc = "live"
    /\ \E call \in RenderCalls :
          /\ Becomes(render(call[1], Self, call[2]))
          /\ op' = [name |-> "render", path |-> call[1], style |-> call[2]]

Rectangle ==
    /\ pc = "live"
    /\ \E origin \in {PO, PN, PF}, w \in {Fin(1, 0), F32Zero}, h \in {Fin(1, 0)},
          style \in {NoStyle, FillRed} :
          /\ Becomes(rectangle(Self, origin, w, h, style))
          /\ op' = [name |-> "rectangle", origin |-> origin, w |-> w, h |-> h,
                    style |-> style]

Square ==
    /\ pc = "live"
    /\ \E origin \in {PA, PN}, side_length \in {Fin(2, 0), Fin(0 - 1, 0)},
          style \in {StrokeBlue} :
          /\ Becomes(square(Self, origin, side_length, style))
          /\ op' = [name |-> "square", origin |-> origin, side_length |-> side_length,
                    style |-> style]

\* The Style of shapes/rectangles.rs: a red box with its interior, and the
\* four sides alone in the half-transparent colour.
BoxRedFilled == [color |-> RED, fill |-> TRUE]
BoxBlueSides == [color |-> HALF_BLUE, fill |-> FALSE]

RectanglesRectangle ==
    /\ pc = "live"
    /\ \E origin \in {PO, PN},
          hw \in {<<Fin(1, 0), Fin(1, 0)>>, <<Fin(3, 0), Fin(3, 0)>>, <<F32Zero, Fin(1, 0)>>},
          style \in {BoxRedFilled} :
          /\ Becomes(rectangles_rectangle(Self, origin, hw[1], hw[2], style))
          /\ op' = [name |-> "rectangles_rectangle", origin |-> origin,
                    h |-> hw[1], w |-> hw[2], style |-> style]

RectanglesSquare ==
    /\ pc = "live"
    /\ \E origin \in {PA}, side_length \in {Fin(2, 0), NaN}, style \in {BoxBlueSides} :
          /\ Becomes(rectangles_square(Self, origin, side_length, style))
          /\ op' = [name |-> "rectangles_square", origin |-> origin,
                    side_length |-> side_length, style |-> style]

\* Under the shapes, set_pixel writes both colours; plot and fill_span write
\* the half-transparent one, the spans starting at or before the left edge.
NextDraw ==
    \/ Clear \/ SetPixel
    \/ Plot /\ op'.color = HALF_BLUE
    \/ FillSpan /\ op'.color = HALF_BLUE /\ op'.x0 <= 0
    \/ Line \/ Circle \/ Triangle \/ EquilateralTriangle \/ Render \/ Rectangle \/ Square
    \/ RectanglesRectangle \/ RectanglesSquare

SpecDraw == InitDraw /\ [][NextDraw]_vars

\* ------------------------------------------------- the stage of the examples
\* examples/shapes.rs draws on Stage::new(20, 15).
EXAMPLE_WIDTH == 20
EXAMPLE_HEIGHT == 15

\* World coordinates of the examples: integers up to MaxWorld in magnitude.
MaxWorld == 2
MaxRadius == 4
WorldInts == (0 - MaxWorld)..MaxWorld

InitExample ==
    /\ pc = "live"
    /\ width = EXAMPLE_WIDTH
    /\ height = EXAMPLE_HEIGHT
    /\ framebuf = new(UsizeOf(EXAMPLE_WIDTH), UsizeOf(EXAMPLE_HEIGHT), TRUE).framebuf
    /\ \/ \E x1 \in WorldInts, y1 \in WorldInts, x2 \in WorldInts, y2 \in WorldInts :
             op = [name |-> "args", shape |-> "line",
                   x1 |-> x1, y1 |-> y1, x2 |-> x2, y2 |-> y2]
       \/ \E x \in WorldInts, y \in WorldInts, r \in 1..MaxRadius :
             op = [name |-> "args", shape |-> "circle", x |-> x, y |-> y, r |-> r]

\* The character disp_stage prints for the pixel p.
PixelChar(p, stroke_rgba, fill_rgba) ==
    IF p[4] = 0 THEN "."
    ELSE IF Some(p) = stroke_rgba THEN "S"
    ELSE IF Some(p) = fill_rgba THEN "F"
    ELSE "#"

\* disp_stage of examples/shapes.rs: prints the stage, a character a pixel
\* and a line a row ("." stands for the middle dot), and clears the stage to
\* transparent.  printed is the sequence of the lines, each a sequence of
\* characters; stage is the stage as disp_stage leaves it.
disp_stage(S, stroke, fill) ==
    IF S.panicked THEN [printed |-> <<>>, stage |-> S]
    ELSE LET stroke_rgba == IF IsSome(stroke) THEN Some(rgba(Unwrap(stroke))) ELSE None
             fill_rgba == IF IsSome(fill) THEN Some(rgba(Unwrap(fill))) ELSE None
         IN  [printed |-> [y \in 1..S.height |->
                              [x \in 1..S.width |->
                                  PixelChar(S.framebuf[(y - 1) * S.width + (x - 1) + 1],
                                            stroke_rgba, fill_rgba)]],
              stage |-> clear(S, TRANSPARENT)]

\* draw_line of examples/shapes.rs: a white stroke-only line is drawn, and
\* disp_stage prints the stage and clears it.  The step records the
\* framebuffer as the line left it (drawn) and the lines printed.
ExampleLine ==
    /\ pc = "live"
    /\ op.name = "args" /\ op.shape = "line"
    /\ \E T \in {line(Self, <<IntToF32(op.x1), IntToF32(op.y1)>>,
                       <<IntToF32(op.x2), IntToF32(op.y2)>>, make_stroke(WHITE))} :
          \E D \in {disp_stage(T, Some(WHITE), None)} :
              /\ Becomes(D.stage)
              /\ op' = [name |-> "example_line", shape |-> op.shape,
                        x1 |-> op.x1, y1 |-> op.y1, x2 |-> op.x2, y2 |-> op.y2,
                        drawn |-> T.framebuf, printed |-> D.printed]

\* draw_circ of examples/shapes.rs: a circle with a red fill and a white
\* stroke is drawn, and disp_stage prints the stage and clears it.
ExampleCircle ==
    /\ pc = "live"
    /\ op.name = "args" /\ op.shape = "circle"
    /\ \E T \in {circle(Self, <<IntToF32(op.x), IntToF32(op.y)>>, IntToF32(op.r),
                         Style_new(Some(RED), Some(WHITE)))} :
          \E D \in {disp_stage(T, Some(WHITE), Some(RED))} :
              /\ Becomes(D.stage)
              /\ op' = [name |-> "example_circle", shape |-> op.shape,
                        x |-> op.x, y |-> op.y, r |-> op.r,
                        drawn |-> T.framebuf, printed |-> D.printed]

NextExample == ExampleLine \/ ExampleCircle

SpecExample == InitExample /\ [][NextExample]_vars

\* ------------------------------------------------ the radii of a circle
MaxNominal == 6
MaxWidthQuarters == 20

\* Stroke widths: multiples of 1/4 from -1 up, NaN and +inf, and 2^64, half
\* of which is more than an isize holds.
StrokeWidths ==
    {Fin(q, 0 - 2) : q \in (0 - 4)..MaxWidthQuarters} \cup {NaN, Inf(1), Fin(1, 64)}

InitRadii ==
    /\ pc = "live"
    /\ width = 1
    /\ height = 1
    /\ framebuf = new(UsizeOf(1), UsizeOf(1), TRUE).framebuf
    /\ \E r0 \in 0..MaxNominal, w1 \in StrokeWidths, w2 \in StrokeWidths :
          op = [name |-> "args", r0 |-> r0, w1 |-> w1, w2 |-> w2]

\* The radii circle_pxl derives for the nominal radius under each of the two
\* stroke widths: the pair (r_out, r_in), and whether the derivation panicked.
RadiiUnder(r0, w) ==
    LET r == CircleRadii(r0, [fill |-> None, stroke |-> Some(Stroke_new(WHITE, OPAQUE, w))])
    IN  [w |-> w, r |-> <<r.r_out, r.r_in>>, panicked |-> r.panicked]

\* The radii the archived circle_px derives for the radius r it is given, the
\* pair (r, rin); it returns before it derives any when r <= 0.
ArchRadiiUnder(r) ==
    IF r <= 0 THEN None
    ELSE Some(<<ArchCircleRadii(r).r_out, ArchCircleRadii(r).r_in>>)

Radii ==
    /\ op.name = "args"
    /\ LET a == RadiiUnder(op.r0, op.w1)
           b == RadiiUnder(op.r0, op.w2)
       IN  /\ op' = [name |-> "radii", r0 |-> op.r0, w1 |-> a, w2 |-> b,
                     arch |-> ArchRadiiUnder(op.r0)]
           /\ pc' = IF a.panicked \/ b.panicked THEN "panicked" ELSE pc
    /\ UNCHANGED <<width, height, framebuf>>

NextRadii == Radii

SpecRadii == InitRadii /\ [][NextRadii]_vars

\* ------------------------------------------------------ rendering a path
PathSide == 3
MaxPathWorld == 2

\* Vertices with integer world coordinates, one step beyond the stage.
PathInts == (0 - MaxPathWorld)..MaxPathWorld
PathPoints == PathInts \X PathInts

\* Twice the signed area of the corner a-b-c.
Turn(a, b, c) == (b[1] - a[1]) * (c[2] - b[2]) - (b[2] - a[2]) * (c[1] - b[1])

\* All corners of the closed polygon turn the same way.
StrictlyConvex(nodes) ==
    LET n == Len(nodes)
        t(i) == Turn(nodes[i], nodes[(i % n) + 1], nodes[((i + 1) % n) + 1])
    IN  n >= 3 /\ ((\A i \in 1..n : t(i) > 0) \/ (\A i \in 1..n : t(i) < 0))

\* Points world_to_pixel has no pixel for; vertex i of a path is replaced by
\* the i-th of them.
Unconvertible == <<PN, PF, <<F32Zero, Inf(0 - 1)>>, <<NaN, NaN>>>>

\* The world nodes of the path drawn from the inputs.
PathNodes(nodes, bad) ==
    [i \in 1..Len(nodes) |->
        IF i = bad THEN Unconvertible[i]
        ELSE <<IntToF32(nodes[i][1]), IntToF32(nodes[i][2])>>]

\* Side lengths of the equilateral triangle: whole numbers of pixels and
\* halves up to MaxSide, zero, a negative one, NaN and +inf.
MaxSide == 4
SideLengths ==
    {Fin(h, 0 - 1) : h \in (0 - 1)..(2 * MaxSide)} \cup {NaN, Inf(1)}

InitPath ==
    /\ pc = "live"
    /\ width = PathSide
    /\ height = PathSide
    /\ framebuf = new(UsizeOf(PathSide), UsizeOf(PathSide), TRUE).framebuf
    /\ \/ \E a \in PathPoints, b \in PathPoints, c \in PathPoints, bad \in 0..3 :
             op = [name |-> "args", nodes |-> <<a, b, c>>, bad |-> bad,
                   style |-> IF bad = 0 THEN FillRed ELSE FillAndStroke]
       \/ \E a \in PathPoints, b \in PathPoints, c \in PathPoints, d \in PathPoints :
             /\ StrictlyConvex(<<a, b, c, d>>)
             /\ op = [name |-> "args", nodes |-> <<a, b, c, d>>, bad |-> 0,
                      style |-> FillRed]
       \/ \E origin \in PathPoints, side_length \in SideLengths,
             style \in {FillRed, StrokeBlue, FillAndStroke} :
             op = [name |-> "side", origin |-> origin, side_length |-> side_length,
                   style |-> style]

\* Path::new(nodes, true).render(stage, style)
RenderClosed ==
    /\ pc = "live"
    /\ op.name = "args"
    /\ Becomes(render(Path_new(PathNodes(op.nodes, op.bad), TRUE), Self, op.style))
    /\ op' = [op EXCEPT !.name = "render_closed"]

\* equilateral_triangle of shapes/polygons.rs about a world point.
PolygonsEquilateralTriangle ==
    /\ pc = "live"
    /\ op.name = "side"
    /\ Becomes(polygons_equilateral_triangle(
                   Self, <<IntToF32(op.origin[1]), IntToF32(op.origin[2])>>,
                   op.side_length, op.style))
    /\ op' = [op EXCEPT !.name = "polygons_equilateral_triangle"]

NextPath == RenderClosed \/ PolygonsEquilateralTriangle

SpecPath == InitPath /\ [][NextPath]_vars

\* --------------------------------------------- filling triangles of pixels
TriSide == 11

\* Pixel coordinates of the vertices: off the stage, on its edges and inside.
TriCoords == {0 - 2, 0, 3, 7, 10}
TriPoints == TriCoords \X TriCoords

\* The one flat part ("bottom" or "top") of fill_triangle, drawn alone.
fill_triangle_part(S, xy1, xy2, xy3, fill_color, part) ==
    LET v == sort_vertices(xy1, xy2, xy3)
        x1 == v[1][1]
        y1 == v[1][2]
        y2 == v[2][2]
        x3 == v[3][1]
        y3 == v[3][2]
    IN  IF S.panicked \/ y1 = y3 THEN S
        ELSE IF y2 = y3
             THEN IF part = "bottom"
                  THEN fill_flat_bottom_triangle(S, v[1], v[2], v[3], fill_color) ELSE S
        ELSE IF y1 = y2
             THEN IF part = "top"
                  THEN fill_flat_top_triangle(S, v[1], v[2], v[3], fill_color) ELSE S
        ELSE LET t_fp == TruncDiv((y2 - y1) * Pow2(16), y3 - y1)
                 x4 == x1 + ((t_fp * (x3 - x1)) \div Pow2(16))
                 v4 == <<x4, y2>>
             IN  IF part = "bottom"
                 THEN fill_flat_bottom_triangle(S, v[1], v[2], v4, fill_color)
                 ELSE fill_flat_top_triangle(S, v[2], v4, v[3], fill_color)

\* Vec positions (1-based) of the pixels of S that hold colour c.
Painted(S, c) == {i \in 1..Len(S.framebuf) : S.framebuf[i] = c}

InitTri ==
    /\ pc = "live"
    /\ width = TriSide
    /\ height = TriSide
    /\ framebuf = new(UsizeOf(TriSide), UsizeOf(TriSide), TRUE).framebuf
    /\ \E a \in TriPoints, b \in TriPoints, c \in TriPoints :
          op = [name |-> "args", xy1 |-> a, xy2 |-> b, xy3 |-> c]

\* draw_triangle_pxl(stage, xy1, xy2, xy3, Style::make_fill(RED)); bottom and
\* top are the pixels each flat part writes when it is drawn alone.
DrawTrianglePxl ==
    /\ pc = "live"
    /\ op.name = "args"
    /\ Becomes(draw_triangle_pxl(Self, op.xy1, op.xy2, op.xy3, FillRed))
    /\ op' = [name |-> "draw_triangle_pxl", xy1 |-> op.xy1, xy2 |-> op.xy2, xy3 |-> op.xy3,
              bottom |-> Painted(fill_triangle_part(Self, op.xy1, op.xy2, op.xy3,
                                                    RED, "bottom"), RED),
              top |-> Painted(fill_triangle_part(Self, op.xy1, op.xy2, op.xy3,
                                                 RED, "top"), RED)]

NextTri == DrawTrianglePxl

SpecTri == InitTri /\ [][NextTri]_vars

\* ------------------------------------------------- lines between pixels
LineWidth == 4
LineHeight == 3
LineMargin == 3

\* End points on the stage and up to LineMargin pixels off it.
LinePoints == ((0 - LineMargin)..(LineWidth - 1 + LineMargin))
                  \X ((0 - LineMargin)..(LineHeight - 1 + LineMargin))

InitLinePx ==
    /\ pc = "live"
    /\ width = LineWidth
    /\ height = LineHeight
    /\ framebuf = new(UsizeOf(LineWidth), UsizeOf(LineHeight), TRUE).framebuf
    /\ \E p0 \in LinePoints, p1 \in LinePoints, f \in {"draw_line", "line_px"} :
          op = [name |-> "args", callee |-> f, p0 |-> p0, p1 |-> p1]

\* draw_line(stage, p0, p1, RED) of primitives/line.rs; clip is what its
\* clip_line_to_stage returns.
DrawLine ==
    /\ pc = "live"
    /\ op.name = "args" /\ op.callee = "draw_line"
    /\ Becomes(draw_line(Self, op.p0, op.p1, RED))
    /\ op' = [name |-> "draw_line", p0 |-> op.p0, p1 |-> op.p1,
              clip |-> clip_line_to_stage(Self, op.p0, op.p1)]

\* line_px(stage, p0, p1, RED) of shapes/lines.rs
LinePx ==
    /\ pc = "live"
    /\ op.name = "args" /\ op.callee = "line_px"
    /\ Becomes(line_px(Self, op.p0, op.p1, RED))
    /\ op' = [name |-> "line_px", p0 |-> op.p0, p1 |-> op.p1,
              clip |-> clip_line_to_stage_unguarded(Self, op.p0, op.p1)]

NextLinePx == DrawLine \/ LinePx

SpecLinePx == InitLinePx /\ [][NextLinePx]_vars

\* ------------------------------------------------ circle_pxl on a stage
\* A CircleSide x CircleSide stage; centres on it and one pixel off it on
\* every side; nominal radii 0..MaxCircleRadius; a fill alone, a stroke alone
\* and both, with strokes of width 1/2, 1, 2, 3, 4, 0 and NaN.
CircleSide == 5
MaxCircleRadius == 3
CircleWidths == {Fin(1, 0 - 1), Fin(1, 0), Fin(2, 0), Fin(3, 0), Fin(4, 0), F32Zero, NaN}
CircleStyles ==
    {[fill |-> Some(Fill_new(RED, OPAQUE)), stroke |-> None]}
        \cup {[fill |-> f, stroke |-> Some(Stroke_new(BLUE, OPAQUE, w))] :
                 f \in {None, Some(Fill_new(RED, OPAQUE))}, w \in CircleWidths}

InitCircle ==
    /\ pc = "live"
    /\ width = CircleSide
    /\ height = CircleSide
    /\ framebuf = new(UsizeOf(CircleSide), UsizeOf(CircleSide), TRUE).framebuf
    /\ \E x \in (0 - 1)..CircleSide, y \in (0 - 1)..CircleSide,
          r0 \in 0..MaxCircleRadius, style \in CircleStyles :
          op = [name |-> "args", origin |-> <<x, y>>, r0 |-> r0, style |-> style]

CirclePxl ==
    /\ pc = "live"
    /\ op.name = "args"
    /\ Becomes(circle_pxl(Self, op.origin, op.r0, op.style))
    /\ op' = [op EXCEPT !.name = "circle_pxl"]

\* circle_px of arch_shapes/circles.rs, given the same centre, radius and
\* style.
CirclePx ==
    /\ pc = "live"
    /\ op.name = "args"
    /\ Becomes(arch_circle_px(Self, IsizePxl(op.origin), UsizeOf(op.r0), op.style))
    /\ op' = [op EXCEPT !.name = "circle_px"]

\* The world point of the pixel p of the stage, whose sides are odd.
WorldOfPixel(p) ==
    <<IntToF32(p[1] - (width - 1) \div 2), IntToF32((height - 1) \div 2 - p[2])>>

\* circle of arch_shapes/circles.rs about the world point of the same centre,
\* with the radius r0 - 1/2, which it rounds up to r0 when that is positive.
ArchCircle ==
    /\ pc = "live"
    /\ op.name = "args"
    /\ Becomes(arch_circle(Self, WorldOfPixel(op.origin), Fin(2 * op.r0 - 1, 0 - 1),
                           op.style))
    /\ op' = [op EXCEPT !.name = "arch_circle"]

NextCircle == CirclePxl \/ CirclePx \/ ArchCircle

SpecCircle == InitCircle /\ [][NextCircle]_vars

\* ------------------------------------- filling and stroking lists of pixels
\* A PolySide x PolySide stage; lists of up to three vertices on it and up
\* to PolyMargin pixels off it, and lists of four vertices from the corners,
\* the centre and the points beside them; strokes no wider than one pixel
\* and strokes of no width.
PolySide == 3
PolyMargin == 1
PolyCoords == (0 - PolyMargin)..(PolySide - 1 + PolyMargin)
PolyPoints == PolyCoords \X PolyCoords
PolyCorners == {0 - PolyMargin, 1, PolySide - 1 + PolyMargin}
                   \X {0 - PolyMargin, 1, PolySide - 1 + PolyMargin}
PolyWidths == {Fin(1, 0 - 1), F32One, F32Zero, Fin(0 - 1, 0), NaN, Inf(1)}

InitPoly ==
    /\ pc = "live"
    /\ width = PolySide
    /\ height = PolySide
    /\ framebuf = new(UsizeOf(PolySide), UsizeOf(PolySide), TRUE).framebuf
    /\ \E nodes \in {<<>>} \cup {<<a>> : a \in PolyPoints}
                       \cup (PolyPoints \X PolyPoints)
                       \cup (PolyPoints \X PolyPoints \X PolyPoints)
                       \cup (PolyCorners \X PolyCorners \X PolyCorners \X PolyCorners) :
          op = [name |-> "args", nodes |-> nodes, closed |-> TRUE, w |-> F32One]

\* Path::make_fill_pxl(nodes_px, stage, Color::RED)
MakeFillPxl ==
    /\ pc = "live"
    /\ op.name = "args"
    /\ Becomes(make_fill_pxl(op.nodes, Self, RED))
    /\ op' = [op EXCEPT !.name = "make_fill_pxl"]

\* Path::make_stroke_pxl(nodes_px, closed, w, stage, Color::BLUE)
MakeStrokePxl ==
    /\ pc = "live"
    /\ op.name = "args"
    /\ \E closed \in BOOLEAN, w \in PolyWidths :
          /\ Becomes(make_stroke_pxl(op.nodes, closed, w, Self, BLUE))
          /\ op' = [op EXCEPT !.name = "make_stroke_pxl", !.closed = closed, !.w = w]

\* Path::render of the path whose nodes convert to the list, from
\* the conversion on, with a fill, a stroke or both.
RenderPxl ==
    /\ pc = "live"
    /\ op.name = "args"
    /\ \E closed \in BOOLEAN, style \in {FillRed, StrokeBlue, FillAndStroke} :
          /\ Becomes(RenderPixels(closed, Self, style, Some(IsizePxls(op.nodes))))
          /\ op' = [name |-> "render", nodes |-> op.nodes, closed |-> closed,
                    w |-> op.w, style |-> style]

NextPoly == MakeFillPxl \/ MakeStrokePxl \/ RenderPxl

SpecPoly == InitPoly /\ [][NextPoly]_vars

\* ------------------------------------------------ the clip, step by step
\* Stages of 1..ClipWidth by 1..ClipHeight pixels, end points on them and up to
\* ClipMargin pixels off them, both versions of clip_line_to_stage.  op holds
\* the end points as the loop moves them, the number of moves made, the
\* branch and the divisor of the last move, and how the loop returned.
ClipWidth == 3
ClipHeight == 2
ClipMargin == 3
MaxClipIter == 6

\* `if c_out == c0 { x0 = xn; y0 = yn } else { x1 = xn; y1 = yn }`
ClipMoved(pass, first, xi, yi) ==
    IF first THEN [pass EXCEPT !.x0 = xi, !.y0 = yi]
    ELSE [pass EXCEPT !.x1 = xi, !.y1 = yi]

\* One pass through the body of the loop from end points (x0, y0), (x1, y1):
\* accept ("some"), reject ("none"), a zero divisor ("zero") or a move of
\* one end point ("move"), with the branch taken and its divisor.
ClipStep(x0, y0, x1, y1, xmax, ymax) ==
    LET c0 == out_code(x0, y0, 0, 0, xmax, ymax)
        c1 == out_code(x1, y1, 0, 0, xmax, ymax)
        c_out == IF c0 # 0 THEN c0 ELSE c1
        dx == x1 - x0
        dy == y1 - y0
        branch == IF HasBit(c_out, 8) THEN "bottom"
                  ELSE IF HasBit(c_out, 4) THEN "top"
                  ELSE IF HasBit(c_out, 2) THEN "right" ELSE "left"
        divisor == IF branch \in {"bottom", "top"} THEN dy ELSE dx
        yi == IF branch = "bottom" THEN ymax
              ELSE IF branch = "top" THEN 0
              ELSE IF branch = "right" THEN y0 + TruncDiv(dy * (xmax - x0), dx)
              ELSE y0 + TruncDiv(dy * (0 - x0), dx)
        xi == IF branch = "bottom" THEN x0 + TruncDiv(dx * (ymax - y0), dy)
              ELSE IF branch = "top" THEN x0 + TruncDiv(dx * (0 - y0), dy)
              ELSE IF branch = "right" THEN xmax ELSE 0
        still == [kind |-> "some", branch |-> "none", divisor |-> 1,
                  x0 |-> x0, y0 |-> y0, x1 |-> x1, y1 |-> y1]
    IN  IF c0 = 0 /\ c1 = 0 THEN still
        ELSE IF ShareBit(c0, c1) THEN [still EXCEPT !.kind = "none"]
        ELSE IF divisor = 0
        THEN [still EXCEPT !.kind = "zero", !.branch = branch, !.divisor = 0]
        ELSE ClipMoved([still EXCEPT !.kind = "move", !.branch = branch,
                                     !.divisor = divisor], c_out = c0, xi, yi)

\* The pass the loop makes from the end points op holds.
ClipNow == ClipStep(op.x0, op.y0, op.x1, op.y1, width - 1, height - 1)

InitClip ==
    /\ pc = "live"
    /\ width \in 1..ClipWidth
    /\ height \in 1..ClipHeight
    /\ framebuf = [i \in 1..(width * height) |-> TRANSPARENT]
    /\ \E guarded \in BOOLEAN,
          x0 \in (0 - ClipMargin)..(width - 1 + ClipMargin),
          y0 \in (0 - ClipMargin)..(height - 1 + ClipMargin),
          x1 \in (0 - ClipMargin)..(width - 1 + ClipMargin),
          y1 \in (0 - ClipMargin)..(height - 1 + ClipMargin) :
          op = [name |-> "clip_line_to_stage", guarded |-> guarded,
                x0 |-> x0, y0 |-> y0, x1 |-> x1, y1 |-> y1,
                iter |-> 0, branch |-> "none", divisor |-> 1, ret |-> "running"]

\* `if (c0 | c1) == 0 { return Some(..) }`
ClipAccept ==
    /\ op.ret = "running"
    /\ ClipNow.kind = "some"
    /\ op' = [op EXCEPT !.ret = "some"]
    /\ UNCHANGED <<pc, width, height, framebuf>>

\* `if (c0 & c1) != 0 { return None }`
ClipReject ==
    /\ op.ret = "running"
    /\ ClipNow.kind = "none"
    /\ op' = [op EXCEPT !.ret = "none"]
    /\ UNCHANGED <<pc, width, height, framebuf>>

\* The rest of the body: the intersection with one edge of the stage replaces
\* the end point outside; on a zero divisor the guarded version returns None
\* and the unguarded one panics.
ClipMove ==
    /\ op.ret = "running"
    /\ op.iter < MaxClipIter
    /\ ClipNow.kind \in {"move", "zero"}
    /\ op' = [op EXCEPT !.x0 = ClipNow.x0, !.y0 = ClipNow.y0,
                        !.x1 = ClipNow.x1, !.y1 = ClipNow.y1,
                        !.branch = ClipNow.branch, !.divisor = ClipNow.divisor,
                        !.iter = IF ClipNow.kind = "move" THEN op.iter + 1 ELSE op.iter,
                        !.ret = IF ClipNow.kind = "move" THEN "running"
                                ELSE IF op.guarded THEN "none" ELSE "panic"]
    /\ pc' = IF ClipNow.kind = "zero" /\ ~op.guarded THEN "panicked" ELSE pc
    /\ UNCHANGED <<width, height, framebuf>>

NextClip == ClipAccept \/ ClipReject \/ ClipMove

SpecClip == InitClip /\ [][NextClip]_vars

\* The loop runs on: a pass that can be made is made.
SpecClipFair == SpecClip /\ WF_vars(NextClip)

\* ------------------------------------------- the clip far from the stage
\* Stages of 1..FarWidth by 1..FarHeight pixels and end points with
\* coordinates from FarCoords: on the stage, next to it, and at the two ends
\* of isize, which world_to_pixel returns for a world coordinate of 2^63 in
\* magnitude.  Both versions of clip_line_to_stage, in both build profiles:
\* op.checks is the profile.  op holds the end points, as isize, as the loop
\* moves them, the pass the loop makes from them (now), the end points the
\* earlier passes started from (seen), and how the loop ended.  A pass is a
\* function of the end points: from end points seen before the loop repeats
\* itself without end, and the model follows it no further.
FarWidth == 1
FarHeight == 3
FarCoords == {ISIZE_MIN, IsizeOf(0 - 1), IsizeOf(0), IsizeOf(3), IsizeOf(5), ISIZE_MAX}

\* The pass of the loop from the end points (x0, y0), (x1, y1).
ClipPassFar(x0, y0, x1, y1, xmax, ymax, guarded, checks) ==
    ClipStepWide(x0, y0, x1, y1, xmax, ymax, guarded,
                 out_code_wide(x0, y0, xmax, ymax),
                 out_code_wide(x1, y1, xmax, ymax), checks)

InitClipFar ==
    /\ pc = "live"
    /\ width \in 1..FarWidth
    /\ height \in 1..FarHeight
    /\ framebuf = [i \in 1..(width * height) |-> TRANSPARENT]
    /\ \E guarded \in BOOLEAN, checks \in BOOLEAN,
          x0 \in FarCoords, y0 \in FarCoords, x1 \in FarCoords, y1 \in FarCoords :
          op = [name |-> "clip_line_to_stage", guarded |-> guarded, checks |-> checks,
                x0 |-> x0, y0 |-> y0, x1 |-> x1, y1 |-> y1, ret |-> "running",
                seen |-> {},
                now |-> ClipPassFar(x0, y0, x1, y1, IsizeOf(width - 1),
                                    IsizeOf(height - 1), guarded, checks)]

\* The loop is at end points that an earlier pass of the call started from.
ClipRepeats == op.ret = "running" /\ <<op.x0, op.y0, op.x1, op.y1>> \in op.seen

\* `if (c0 | c1) == 0 { return Some(..) }`
ClipAcceptFar ==
    /\ op.ret = "running"
    /\ op.now.kind = "some"
    /\ op' = [op EXCEPT !.ret = "some"]
    /\ UNCHANGED <<pc, width, height, framebuf>>

\* `if (c0 & c1) != 0 { return None }`, and the guards of the primitives
\* version
ClipRejectFar ==
    /\ op.ret = "running"
    /\ op.now.kind = "none"
    /\ op' = [op EXCEPT !.ret = "none"]
    /\ UNCHANGED <<pc, width, height, framebuf>>

\* The rest of the body, when its arithmetic goes through: the point
\* computed replaces the end point outside, and the loop goes round.
ClipMoveFar ==
    /\ op.ret = "running"
    /\ op.now.kind = "move"
    /\ ~ClipRepeats
    /\ op' = [op EXCEPT !.x0 = op.now.x0, !.y0 = op.now.y0,
                        !.x1 = op.now.x1, !.y1 = op.now.y1,
                        !.seen = op.seen \cup {<<op.x0, op.y0, op.x1, op.y1>>},
                        !.now = ClipPassFar(op.now.x0, op.now.y0, op.now.x1, op.now.y1,
                                            IsizeOf(width - 1), IsizeOf(height - 1),
                                            op.guarded, op.checks)]
    /\ UNCHANGED <<pc, width, height, framebuf>>

\* The rest of the body, when it panics: a `-`, `*` or `+` overflows with
\* overflow checks on, or the division is i64::MIN / -1 or by zero.
ClipPanicFar ==
    /\ op.ret = "running"
    /\ op.now.kind = "panic"
    /\ op' = [op EXCEPT !.ret = "panic"]
    /\ pc' = "panicked"
    /\ UNCHANGED <<width, height, framebuf>>

NextClipFar == ClipAcceptFar \/ ClipRejectFar \/ ClipMoveFar \/ ClipPanicFar

SpecClipFar == InitClipFar /\ [][NextClipFar]_vars

\* ================================================================== claims
\* Column and row of the pixel stored at Vec index i of a stage w wide.
ColOf(i, w) == i % w
RowOf(i, w) == i \div w

\* The stage is alive and kept its dimensions over the step.
SameStage == pc' = "live" /\ width' = width /\ height' = height
                 /\ Len(framebuf') = Len(framebuf)

\* C1 (as amended).  fill_span(y, x0, x1, c) colours exactly the in-bounds
\* pixels of row y whose x satisfies x0 <= x <= x1 and leaves every other pixel
\* unchanged; it is a no-op when x0 > x1, when y is out of bounds and when the
\* span lies fully off-canvas.
FillSpanExact ==
    [][op'.name = "fill_span" =>
         /\ SameStage
         /\ \A i \in 0..(Len(framebuf) - 1) :
               framebuf'[i + 1] =
                 IF /\ RowOf(i, width) = op'.y
                    /\ op'.x0 <= ColOf(i, width)
                    /\ ColOf(i, width) <= op'.x1
                 THEN op'.color
                 ELSE framebuf[i + 1]]_vars

\* C1 (as claimed).  fill_span is order-independent: it colours the in-bounds
\* pixels of row y between min(x0, x1) and max(x0, x1), also when x0 > x1.
FillSpanOrderIndependent ==
    [][op'.name = "fill_span" =>
         /\ SameStage
         /\ \A i \in 0..(Len(framebuf) - 1) :
               framebuf'[i + 1] =
                 IF /\ RowOf(i, width) = op'.y
                    /\ Min(op'.x0, op'.x1) <= ColOf(i, width)
                    /\ ColOf(i, width) <= Max(op'.x0, op'.x1)
                 THEN op'.color
                 ELSE framebuf[i + 1]]_vars

\* C1 witness: a span that starts left of the canvas was clipped into row 1 of
\* a two-row stage: pixel (0, 1) took the colour, row 0 did not.
FillSpanClipped ==
    /\ op.name = "fill_span" /\ op.x0 < 0 /\ op.x1 = 0 /\ op.y = 1
    /\ width = 2 /\ height = 2
    /\ framebuf[3] = op.color /\ framebuf[4] # op.color
    /\ framebuf[1] # op.color /\ framebuf[2] # op.color

\* C2.  set_pixel(x, y, c) in bounds followed by get_pixel(x, y) returns
\* Some(c), whatever the framebuffer held before; get_pixel out of bounds
\* returns None; get_pixel never panics.
SetThenGet ==
    [][op'.name = "get_pixel" =>
         /\ pc' = "live"
         /\ (op'.x >= width \/ op'.y >= height) => op'.ret = None
         /\ (/\ op.name = "set_pixel"
             /\ op.x < width /\ op.y < height
             /\ op'.x = op.x /\ op'.y = op.y) => op'.ret = Some(op.color)]_vars

\* C2 witness: a read of an in-bounds pixel of a 2x2 stage returned a colour
\* that only a write can have put there.
GetReadsWritten ==
    /\ op.name = "get_pixel" /\ width = 2 /\ height = 2
    /\ op.x = 1 /\ op.y = 0
    /\ op.ret = Some(HALF_BLUE)

\* C3.  plot(x, y, c) writes exactly pixel (x, y) when 0 <= x < width and
\* 0 <= y < height; otherwise (a negative or too large coordinate) the
\* framebuffer is unchanged.  It never panics.
PlotFrame ==
    [][op'.name = "plot" =>
         /\ SameStage
         /\ \A i \in 0..(Len(framebuf) - 1) :
               framebuf'[i + 1] =
                 IF /\ 0 <= op'.x /\ op'.x < width
                    /\ 0 <= op'.y /\ op'.y < height
                    /\ ColOf(i, width) = op'.x /\ RowOf(i, width) = op'.y
                 THEN op'.color
                 ELSE framebuf[i + 1]]_vars

\* C3 witness: plot(-1, 1, c) ran on a 2x2 stage, where a wrapped index
\* 1*2 + (-1) would be pixel (1, 0), and that pixel does not hold c.
PlotNegative ==
    /\ op.name = "plot" /\ op.x = 0 - 1 /\ op.y = 1
    /\ width = 2 /\ height = 2
    /\ framebuf[2] # op.color

\* C4.  After any sequence of draws (plot, set_pixel, fill_span, line, circle,
\* triangle, path render, rectangle, square), clear(c) leaves the stage with
\* width*height pixels, every one equal to c; after clear(transparent) every
\* pixel is (0,0,0,0).
ClearResets ==
    op.name = "clear" =>
        /\ pc = "live"
        /\ Len(framebuf) = width * height
        /\ \A i \in 1..Len(framebuf) : framebuf[i] = op.color
        /\ op.color = TRANSPARENT =>
              \A i \in 1..Len(framebuf) : framebuf[i] = <<0, 0, 0, 0>>

\* C4 witness: clear(transparent) ran on a framebuffer that draws had left
\* with a red and a half-transparent blue pixel, and every pixel is (0,0,0,0).
ClearAfterDraws ==
    /\ op.name = "clear" /\ op.color = TRANSPARENT
    /\ \E i \in 1..Len(op.before) : op.before[i] = RED
    /\ \E i \in 1..Len(op.before) : op.before[i] = HALF_BLUE
    /\ \A i \in 1..Len(framebuf) : framebuf[i] = <<0, 0, 0, 0>>

\* C5 (as amended).  Stage::new(width, height) panics when width = 0, when
\* height = 0 and when width*height is 2^61 or more (the bit lengths add up
\* to 8*USIZE_BYTES - 1 or more): the product does not fit a usize, or its
\* pixels take more than isize::MAX bytes.  For a smaller product (bit
\* lengths adding up to at most 8*USIZE_BYTES - 3) it returns when the
\* allocator grants the pixels and the process is aborted when it refuses
\* them, and only then.  When it returns, the stage has the given dimensions
\* and width*height pixels, every one (0,0,0,0).
NewAllocates ==
    op.name = "new" =>
        LET bw == UsizeBits(op.w, USIZE_BYTES)
            bh == UsizeBits(op.h, USIZE_BYTES)
        IN  /\ (bw = 0 \/ bh = 0) => pc = "panicked"
            /\ (bw > 0 /\ bh > 0 /\ bw + bh >= 8 * USIZE_BYTES - 1) => pc = "panicked"
            /\ (bw > 0 /\ bh > 0 /\ bw + bh <= 8 * USIZE_BYTES - 3) =>
                  IF op.allocated THEN pc \in {"live", "large"} ELSE pc = "aborted"
            /\ pc = "aborted" => ~op.allocated
            /\ pc = "live" =>
                  /\ UsizeOf(width) = op.w /\ UsizeOf(height) = op.h
                  /\ Len(framebuf) = width * height
                  /\ \A i \in 1..Len(framebuf) : framebuf[i] = <<0, 0, 0, 0>>
            /\ pc = "large" =>
                  /\ width = op.w /\ height = op.h
                  /\ RunsLen(framebuf) = UsizeMul(op.w, op.h)
                  /\ \A i \in 1..Len(framebuf) : framebuf[i].rgba = <<0, 0, 0, 0>>

\* C5 (as claimed).  Stage::new(width, height) panics when width = 0, when
\* height = 0 and when width*height does not fit a usize (the bit lengths
\* add up to more than 8*USIZE_BYTES + 1, so the product is at least 2^64);
\* when the bit lengths add up to at most 8*USIZE_BYTES the product fits and
\* the stage has the given dimensions and width*height pixels, every one
\* (0,0,0,0).  (Of the calls whose pixels the allocator grants.)
NewContract ==
    (op.name = "new" /\ op.allocated) =>
        LET bw == UsizeBits(op.w, USIZE_BYTES)
            bh == UsizeBits(op.h, USIZE_BYTES)
        IN  /\ (bw = 0 \/ bh = 0) => pc = "panicked"
            /\ (bw > 0 /\ bh > 0 /\ bw + bh >= 8 * USIZE_BYTES + 2) => pc = "panicked"
            /\ (bw > 0 /\ bh > 0 /\ bw + bh <= 8 * USIZE_BYTES) =>
                  /\ pc \in {"live", "large"}
                  /\ pc = "live" =>
                        /\ UsizeOf(width) = op.w /\ UsizeOf(height) = op.h
                        /\ Len(framebuf) = width * height
                        /\ \A i \in 1..Len(framebuf) : framebuf[i] = <<0, 0, 0, 0>>
                  /\ pc = "large" =>
                        /\ width = op.w /\ height = op.h
                        /\ RunsLen(framebuf) = UsizeMul(op.w, op.h)
                        /\ \A i \in 1..Len(framebuf) : framebuf[i].rgba = <<0, 0, 0, 0>>

\* C5 witness: Stage::new was called with two non-zero dimensions whose
\* product is a usize, and failed: the Vec could not be had.
NewUnallocated ==
    /\ op.name = "new" /\ pc = "panicked"
    /\ ~UsizeIsZero(op.w) /\ ~UsizeIsZero(op.h)
    /\ IsSome(checked_mul(op.w, op.h))

\* On a stage of 2^31 pixels or more (SpecLarge): no call panics, the Vec
\* keeps width*height pixels, held as runs that differ from their neighbours;
\* a set_pixel or plot inside the stage is read back by get_pixel, one outside
\* it or a get_pixel outside it is None.
LargeStageSound ==
    (pc # "start" /\ op.name # "new") =>
        /\ pc = "large"
        /\ RunsLen(framebuf) = UsizeMul(width, height)
        /\ framebuf = RunsJoined(framebuf)
        /\ \A i \in 1..Len(framebuf) : ~UsizeIsZero(framebuf[i].n)
        /\ op.name = "set_pixel" =>
              get_pixel_large(Self, op.x, op.y).ret =
                  IF UsizeLt(op.x, width) /\ UsizeLt(op.y, height) THEN Some(RED) ELSE None
        /\ (op.name = "plot" /\ IsizeSign(op.x) >= 0) =>
              get_pixel_large(Self, op.x.mag, op.y.mag).ret =
                  IF UsizeLt(op.x.mag, width) THEN Some(RED) ELSE None
        /\ op.name = "get_pixel" =>
              (IsSome(op.ret) <=> (UsizeLt(op.x, width) /\ UsizeLt(op.y, height)))
        /\ op.name = "clear" =>
              framebuf = <<[n |-> UsizeMul(width, height), rgba |-> op.color]>>

\* The last pixel of a stage of 65536 x 32768 pixels was written and is read
\* back, and the first pixel holds what clear left there.
LargeLastPixelRead ==
    /\ pc = "large" /\ width = UsizeOf(65536) /\ height = UsizeOf(32768)
    /\ op.name = "get_pixel" /\ op.x = UsizeOf(65535) /\ op.y = UsizeOf(32767)
    /\ op.ret = Some(RED)
    /\ framebuf[1].rgba = <<0, 0, 0, 0>>

\* sums of world_to_pixel are exact in f32 for it.
IsQuarter(v) == v.k = "fin" /\ (v.m = 0 \/ (v.e >= 0 - 2 /\ Top(v) <= 20))

\* Four times such a coordinate, as an integer.
Times4(v) == v.m * Pow2(v.e + 2)

\* n/4 rounded to the nearest integer, halves away from zero.
RoundQuarters(n) == Sign(n) * ((Abs(n) + 2) \div 4)

\* The pixel y of a conversion's result, as an integer.
PixelY(ret) == IsizeToInt(ret[1][2])

\* The dimensions of the stage as integers (every stage world_to_pixel is
\* applied to has sides below 2^31).
StageWidth == IF pc = "large" THEN UsizeToInt(width) ELSE width
StageHeight == IF pc = "large" THEN UsizeToInt(height) ELSE height

\* A world coordinate v and a dimension n of the stage are such that the sum
\* of v and (n-1)/2 is an integer below 2^29 when scaled by 2^SumScale(v):
\* the scale is the last bit of v, and at least the half of the centre.
SumScale(v) == IF v.m = 0 THEN 1 ELSE Max(1, 0 - v.e)
SumIsSmall(v, n) ==
    /\ v.k = "fin"
    /\ v.m = 0 \/ (0 - v.e <= F32_MANT_BITS + 1 /\ Top(v) + SumScale(v) <= 28)
    /\ BitLen(n) + SumScale(v) <= 29

\* v and (n-1)/2 scaled by 2^SumScale(v), and the sums x + (n-1)/2 and
\* (n-1)/2 - y so scaled: exact integers.
ScaledCoord(v) == IF v.m = 0 THEN 0 ELSE v.m * Pow2(v.e + SumScale(v))
ScaledCentre(v, n) == (n - 1) * Pow2(SumScale(v) - 1)
XSum(x, n) == ScaledCoord(x) + ScaledCentre(x, n)
YSum(y, n) == ScaledCentre(y, n) - ScaledCoord(y)

\* s / 2^k rounded to the nearest integer, halves away from zero.
RoundScaled(s, k) == Sign(s) * ((Abs(s) + Pow2(k - 1)) \div Pow2(k))

\* The integer s, at whatever binary scale, is an f32: it has no more than
\* F32_MANT_BITS significant bits.
ExactInF32(s) == s = 0 \/ BitLen(Abs(s)) - TrailingZeros(Abs(s)) <= F32_MANT_BITS

\* y + 1.0 is exact in f32: the world coordinate one above y exists.
PlusOneExact(y) ==
    LET up == F32Add(y, F32One)
        k == SumScale(y)
    IN  /\ up.k = "fin"
        /\ IF up.m = 0 THEN ScaledCoord(y) + Pow2(k) = 0
           ELSE up.e + k >= 0 /\ up.m * Pow2(up.e + k) = ScaledCoord(y) + Pow2(k)

\* A conversion was made whose sums are small enough to be computed exactly.
W2PSmall ==
    /\ op.name = "world_to_pixel"
    /\ SumIsSmall(op.x, StageWidth) /\ SumIsSmall(op.y, StageHeight)

\* world_to_pixel returned the pixel x the claim gives: round(x + (width-1)/2).
PixelXRounded ==
    /\ IsSome(op.ret)
    /\ op.ret[1][1] = IsizeOf(RoundScaled(XSum(op.x, StageWidth), SumScale(op.x)))

\* world_to_pixel returned the pixel y the claim gives: round((height-1)/2 - y).
PixelYRounded ==
    /\ IsSome(op.ret)
    /\ op.ret[1][2] = IsizeOf(RoundScaled(YSum(op.y, StageHeight), SumScale(op.y)))

\* The stage has odd sides and the world origin was converted.
OddStageOrigin ==
    /\ StageWidth % 2 = 1 /\ StageHeight % 2 = 1
    /\ op.x = F32Zero /\ op.y = F32Zero

\* world_to_pixel returned the centre pixel ((width-1)/2, (height-1)/2).
CentrePixel ==
    op.ret = Some(<<IsizeOf((StageWidth - 1) \div 2), IsizeOf((StageHeight - 1) \div 2)>>)

\* The pixel y of the world point one above that of op is lower by d.
PixelYStep(d) ==
    \E up \in {world_to_pixel(Self, op.x, F32Add(op.y, F32One))} :
        IsSome(up) /\ PixelY(up) = PixelY(op.ret) - d

\* y + 1 is an f32, and the sums (height-1)/2 - y and (height-1)/2 - (y + 1)
\* are exact in f32.
StepSumsExact ==
    /\ PlusOneExact(op.y)
    /\ ExactInF32(YSum(op.y, StageHeight))
    /\ ExactInF32(YSum(op.y, StageHeight) - Pow2(SumScale(op.y)))

\* (height-1)/2 - y is exactly 1/2.
YSumIsHalf == YSum(op.y, StageHeight) = Pow2(SumScale(op.y) - 1)

\* C6 (as amended).  world_to_pixel computes round(x + cx) and round(cy - y)
\* in f32, halves rounded away from zero, with cx = (width as f32 - 1.0) * 0.5
\* and cy likewise.  For a width of at most 2^24 and a finite x whose sum
\* x + (width-1)/2 is exact in f32, the pixel x is round(x + (width-1)/2); for
\* a height of at most 2^24 and a finite y whose sum (height-1)/2 - y is exact
\* in f32, the pixel y is round((height-1)/2 - y).  On a stage of odd width
\* and odd height, both at most 2^24, the origin maps to the centre pixel.
\* For a height of at most 2^24, increasing world y by 1 (y + 1 and both sums
\* exact in f32) decreases pixel y by 1, except where (height-1)/2 - y is
\* exactly 1/2: there pixel y goes from 1 to -1.
W2PRounds ==
    W2PSmall =>
        /\ (StageWidth <= WideSide /\ ExactInF32(XSum(op.x, StageWidth))) => PixelXRounded
        /\ (StageHeight <= WideSide /\ ExactInF32(YSum(op.y, StageHeight))) => PixelYRounded
        /\ (OddStageOrigin /\ StageWidth <= WideSide /\ StageHeight <= WideSide) =>
              CentrePixel
        /\ (StageHeight <= WideSide /\ StepSumsExact) =>
              PixelYStep(IF YSumIsHalf THEN 2 ELSE 1)

\* The three parts of C6 as claimed, each for every stage and every finite
\* coordinate.
\*
\* The pixel is (round(x + (width-1)/2), round((height-1)/2 - y)).
W2PRoundsAlways == W2PSmall => (PixelXRounded /\ PixelYRounded)

\* The same on the stages with sides of at most 2^24 alone, whatever the sums.
W2PRoundsOnPlainStages ==
    (W2PSmall /\ StageWidth <= WideSide /\ StageHeight <= WideSide) =>
        (PixelXRounded /\ PixelYRounded)

\* The same for the sums that are exact in f32 alone, whatever the stage.
W2PRoundsExactSums ==
    (W2PSmall /\ ExactInF32(XSum(op.x, StageWidth))
              /\ ExactInF32(YSum(op.y, StageHeight))) =>
        (PixelXRounded /\ PixelYRounded)

\* On every stage of odd width and height the origin maps to the centre pixel.
W2POddCentreAlways == (W2PSmall /\ OddStageOrigin) => CentrePixel

\* Increasing world y by 1 decreases pixel y by 1.
W2PStepAlways == (W2PSmall /\ PlusOneExact(op.y)) => PixelYStep(1)

\* The same for exact sums on the stages with sides of at most 2^24, the sum
\* 1/2 among them.
W2PStepAtHalf ==
    (W2PSmall /\ StageHeight <= WideSide /\ StepSumsExact) => PixelYStep(1)

\* The same for exact sums away from 1/2, whatever the stage.
W2PStepOnEveryStage ==
    (W2PSmall /\ StepSumsExact /\ ~YSumIsHalf) => PixelYStep(1)

\* The same away from 1/2 on the stages with sides of at most 2^24, whatever
\* the sums.
W2PStepInexactSums ==
    (W2PSmall /\ PlusOneExact(op.y) /\ StageHeight <= WideSide /\ ~YSumIsHalf) =>
        PixelYStep(1)

\* C6 (as claimed).  world_to_pixel maps every finite (x, y) to
\* (round(x + (width-1)/2), round((height-1)/2 - y)); on every stage of odd
\* width and odd height the origin maps to the centre pixel; increasing world
\* y by 1 decreases pixel y by 1.
W2PAsClaimed == W2PRoundsAlways /\ W2POddCentreAlways /\ W2PStepAlways

\* C6 witness: the origin was converted on the stage of 16777215 x 16777215
\* pixels, the widest odd sides every integer up to which is an f32, and gave
\* the centre pixel (8388607, 8388607).
W2POriginCentre ==
    /\ op.name = "world_to_pixel" /\ pc = "large"
    /\ StageWidth = WideSide - 1 /\ StageHeight = WideSide - 1
    /\ op.x = F32Zero /\ op.y = F32Zero
    /\ op.ret = Some(<<IsizeOf(8388607), IsizeOf(8388607)>>)

\* The origin was converted on the stage of 16777219 x 16777219 pixels and
\* gave the pixel (8388610, 8388610), one past the centre (8388609, 8388609):
\* 16777219 as f32 is 16777220.
W2POriginOffCentre ==
    /\ op.name = "world_to_pixel" /\ pc = "large"
    /\ StageWidth = WideSide + 3 /\ StageHeight = WideSide + 3
    /\ op.x = F32Zero /\ op.y = F32Zero
    /\ op.ret = Some(<<IsizeOf(8388610), IsizeOf(8388610)>>)

\* The f32 just below 1/2 was converted on a stage 3 pixels wide and gave the
\* pixel x 2: the sum 1.49999997 is not an f32 and rounds to 1.5, which
\* rounds to 2, where round(1.49999997) is 1.
W2PBelowHalfRoundsUp ==
    /\ op.name = "world_to_pixel" /\ pc = "live" /\ width = 3
    /\ op.x = Fin(16777215, 0 - 25)
    /\ IsSome(op.ret) /\ op.ret[1][1] = IsizeOf(2)

\* The integral f32 v lies outside the range of isize.
ExceedsIsize(v) ==
    \/ v.k = "inf"
    \/ v.k = "fin" /\ v.m > 0 /\ Top(v) >= 8 * USIZE_BYTES
    \/ v.k = "fin" /\ v.m < 0 /\ Top(v) > 8 * USIZE_BYTES
    \/ v.k = "fin" /\ v.m < 0 - 1 /\ Top(v) = 8 * USIZE_BYTES

\* The isize i is exactly the integral f32 v.
IsizeEquals(i, v) ==
    /\ v.k = "fin" /\ v.e >= 0 /\ Top(v) <= 8 * USIZE_BYTES
    /\ i.neg = (v.m < 0)
    /\ \A j \in 1..USIZE_BYTES : i.mag[j] = ShiftedByte(Abs(v.m), v.e, j)

\* C7.  world_to_pixel yields None when x or y is non-finite and when a
\* rounded coordinate lies outside the range of isize; when it yields Some,
\* the integers are exactly the rounded values (not saturated, not wrapped).
W2PRepresentable ==
    op.name = "world_to_pixel" =>
        LET cx == CenterOf(Self, width)
            cy == CenterOf(Self, height)
            px == round(F32Add(op.x, cx))
            py == round(F32Sub(cy, op.y))
        IN  /\ (~is_finite(op.x) \/ ~is_finite(op.y)) => op.ret = None
            /\ (is_finite(op.x) /\ is_finite(op.y)
                  /\ (ExceedsIsize(px) \/ ExceedsIsize(py))) => op.ret = None
            /\ IsSome(op.ret) =>
                  /\ IsizeEquals(op.ret[1][1], px)
                  /\ IsizeEquals(op.ret[1][2], py)

\* C8.  For every alpha a and opacity o in 0..255, Fill::rgba and
\* Stroke::rgba keep R, G and B and return the alpha nearest to a*o/255 (255
\* is odd, so there are no ties: |255*alpha - a*o| <= 127); the u16
\* intermediate a*o + 127 does not overflow and the alpha is a byte; o = 255
\* returns a and o = 0 returns 0.
RgbaRoundsAlpha ==
    (op.name = "Fill::rgba" \/ op.name = "Stroke::rgba") =>
        LET a == op.color[4]
            o == op.opacity
            r == op.ret
        IN  /\ ~op.overflow
            /\ r[1] = op.color[1] /\ r[2] = op.color[2] /\ r[3] = op.color[3]
            /\ r[4] \in 0..255
            /\ Abs(255 * r[4] - a * o) <= 127
            /\ a * o + 127 <= 65535
            /\ o = 255 => r[4] = a
            /\ o = 0 => r[4] = 0

\* C8 witness: a Stroke of alpha 255 and opacity 128 was resolved, to alpha
\* 128 (255*128/255), with R, G and B kept.
RgbaHalfOpacity ==
    /\ op.name = "Stroke::rgba" /\ op.color[4] = 255 /\ op.opacity = 128
    /\ op.ret = <<255, 0, 7, 128>>

\* The resolved colours a style writes.
StyleColors(style) ==
    (IF IsSome(style.fill) THEN {Fill_rgba(Unwrap(style.fill))} ELSE {})
        \cup (IF IsSome(style.stroke) THEN {Stroke_rgba(Unwrap(style.stroke))} ELSE {})

ShapeNames ==
    {"line", "circle", "triangle", "equilateral_triangle", "render", "rectangle", "square"}

\* The calls of shapes/rectangles.rs, whose style is one colour.
BoxNames == {"rectangles_rectangle", "rectangles_square"}

\* The resolved colours the call recorded in o passes to the framebuffer.
OpColors(o) ==
    IF o.name \in ShapeNames THEN StyleColors(o.style)
    ELSE IF o.name \in BoxNames THEN {rgba(o.style.color)}
    ELSE {rgba(o.color)}

\* The call recorded in o, applied to the stage S.
DrawOn(S, o) ==
    CASE o.name = "clear" -> clear(S, o.color)
      [] o.name = "set_pixel" -> set_pixel(S, o.x, o.y, o.color)
      [] o.name = "plot" -> plot(S, o.x, o.y, o.color)
      [] o.name = "fill_span" -> fill_span(S, o.y, o.x0, o.x1, o.color)
      [] o.name = "line" -> line(S, o.xy1, o.xy2, o.style)
      [] o.name = "circle" -> circle(S, o.origin, o.radius, o.style)
      [] o.name = "triangle" -> triangle(S, o.xy1, o.xy2, o.xy3, o.style)
      [] o.name = "equilateral_triangle" ->
            equilateral_triangle(S, o.origin, o.side_length, o.style)
      [] o.name = "render" -> render(o.path, S, o.style)
      [] o.name = "rectangle" -> rectangle(S, o.origin, o.w, o.h, o.style)
      [] o.name = "square" -> square(S, o.origin, o.side_length, o.style)
      [] o.name = "rectangles_rectangle" ->
            rectangles_rectangle(S, o.origin, o.h, o.w, o.style)
      [] o.name = "rectangles_square" ->
            rectangles_square(S, o.origin, o.side_length, o.style)

\* A colour no call writes, and the stage with every pixel set to it.
MARK == <<1, 2, 3, 4>>
Marked == [Self EXCEPT !.framebuf = [i \in 1..Len(framebuf) |-> MARK]]

\* W holds what a call writes on the marked stage; the step left every pixel
\* the call does not write as it was, and put into every pixel it writes the
\* value it writes there on the marked stage, one of the colours in cs.
WrittenOver(W, cs) ==
    /\ ~W.panicked
    /\ \A i \in 1..Len(framebuf) :
          IF W.framebuf[i] = MARK
          THEN framebuf'[i] = framebuf[i]
          ELSE W.framebuf[i] \in cs /\ framebuf'[i] = W.framebuf[i]

\* C9.  The framebuffer performs no blending: every call (clear, set_pixel,
\* plot, fill_span, a shape draw) leaves each pixel either as it was or holding
\* exactly one of the call's resolved colours, and which pixels it writes and
\* what it writes there do not depend on what the framebuffer held before (the
\* same as on a stage of another colour), whatever the colour's alpha.
NoBlending ==
    [][/\ SameStage
       /\ \E W \in {DrawOn(Marked, op')} : WrittenOver(W, OpColors(op'))]_vars

\* C9 witness: a shape call with a red fill and a half-transparent blue stroke
\* left a pixel that its fill alone paints red holding exactly the stroke's
\* colour (0, 0, 255, 128): the stroke's write replaced the fill's.
StrokeReplacedFill ==
    /\ op.name \in ShapeNames
    /\ op.style = FillAndStroke
    /\ \E i \in 1..Len(framebuf) :
          /\ DrawOn(Marked, [op EXCEPT !.style = FillRed]).framebuf[i] = RED
          /\ framebuf[i] = <<0, 0, 255, 128>>

\* The world points of a shape call.
OpPoints(o) ==
    CASE o.name = "line" -> {o.xy1, o.xy2}
      [] o.name = "circle" -> {o.origin}
      [] o.name = "triangle" -> {o.xy1, o.xy2, o.xy3}
      [] o.name = "equilateral_triangle" -> {o.origin}
      [] o.name = "render" -> {o.path.nodes[i] : i \in 1..Len(o.path.nodes)}
      [] o.name = "rectangle" -> {o.origin}
      [] o.name = "square" -> {o.origin}

\* Soft-invalid input: a non-finite coordinate, a world point without a pixel,
\* a non-finite or non-positive circle radius, or a style with neither fill
\* nor stroke.
SoftInvalid(o) ==
    \/ ~fill_or_stroke_exists(o.style)
    \/ \E p \in OpPoints(o) :
          \/ ~is_finite(p[1]) \/ ~is_finite(p[2])
          \/ ~IsSome(world_to_pixel(Self, p[1], p[2]))
    \/ o.name = "circle" /\ (~is_finite(o.radius) \/ F32Le(o.radius, F32Zero))

\* C10.  A shape call with soft-invalid input, or with a style carrying
\* neither fill nor stroke, raises no error and leaves every pixel unchanged
\* (so the calls after it see the framebuffer as if it had been omitted).
SoftInvalidSkipped ==
    [][(op'.name \in ShapeNames /\ SoftInvalid(op')) =>
          (pc' = "live" /\ framebuf' = framebuf)]_vars

\* The pixel (col, row) a world point with integer coordinates falls on:
\* round(x + (width-1)/2) and round((height-1)/2 - y), halves away from zero.
PixelOfWorld(x, y) ==
    <<RoundQuarters(4 * x + 2 * (width - 1)), RoundQuarters(2 * (height - 1) - 4 * y)>>

\* Vec positions (1-based) of the pixels holding colour c, on the stage and
\* in a framebuffer buf.
Holding(c) == {i \in 1..Len(framebuf) : framebuf[i] = c}
HoldingIn(buf, c) == {i \in 1..Len(buf) : buf[i] = c}

\* The characters of the printed lines, one after the other in the order of
\* the Vec.
Printed(lines) ==
    [i \in 1..(Len(lines) * width) |->
        lines[RowOf(i - 1, width) + 1][ColOf(i - 1, width) + 1]]

\* Position (1-based) of pixel p.
PosOf(p) == p[2] * width + p[1] + 1

\* Two positions are 8-adjacent (or equal).
Adjacent8(i, j) ==
    /\ Abs(ColOf(i - 1, width) - ColOf(j - 1, width)) <= 1
    /\ Abs(RowOf(i - 1, width) - RowOf(j - 1, width)) <= 1

\* The positions of W reachable from R by 8-adjacent steps inside W.
RECURSIVE Reach(_, _)
Reach(W, R) ==
    LET R2 == R \cup {j \in W : \E i \in R : Adjacent8(i, j)}
    IN  IF R2 = R THEN R ELSE Reach(W, R2)

\* C11.  On a fresh 20x15 stage a white stroke-only line between two world
\* points (integer coordinates up to MaxWorld in magnitude, the example's
\* (-1,-2) to (1,1) among them) leaves a set of white pixels that holds the
\* pixels of both end points and is 8-connected from the one to the other;
\* every other pixel is still (0,0,0,0).  The example prints this stage, S
\* on the white pixels and a dot on the others, and leaves it cleared.
ExampleLineConnected ==
    op.name = "example_line" =>
        LET W == HoldingIn(op.drawn, WHITE)
            a == PosOf(PixelOfWorld(op.x1, op.y1))
            b == PosOf(PixelOfWorld(op.x2, op.y2))
        IN  /\ pc = "live"
            /\ a \in W /\ b \in W
            /\ Reach(W, {a}) = W
            /\ \A i \in 1..Len(op.drawn) : i \notin W => op.drawn[i] = <<0, 0, 0, 0>>
            /\ Printed(op.printed) = [i \in 1..Len(op.drawn) |->
                                         IF i \in W THEN "S" ELSE "."]
            /\ framebuf = [i \in 1..Len(op.drawn) |-> <<0, 0, 0, 0>>]

\* C11 witness: the line of the example, from (-1,-2) to (1,1), was drawn: its
\* end pixels (9,9) and (11,6) are white, (11,6) is diagonal to (10,7), and
\* four pixels are white.
ExampleLineDrawn ==
    /\ op.name = "example_line"
    /\ op.x1 = 0 - 1 /\ op.y1 = 0 - 2 /\ op.x2 = 1 /\ op.y2 = 1
    /\ op.drawn[PosOf(<<9, 9>>)] = WHITE /\ op.drawn[PosOf(<<11, 6>>)] = WHITE
    /\ Cardinality(HoldingIn(op.drawn, WHITE)) = 4
    /\ op.printed[10][10] = "S" /\ op.printed[7][12] = "S"

\* Squared distance of position i from pixel p.
Dist2(i, p) ==
    (ColOf(i - 1, width) - p[1]) * (ColOf(i - 1, width) - p[1])
    + (RowOf(i - 1, width) - p[2]) * (RowOf(i - 1, width) - p[2])

\* C12.  On a fresh 20x15 stage a circle of radius r (1..MaxRadius, about a
\* world point with integer coordinates; the example's radius 4 about (1,1)
\* among them) with a red fill and a white stroke of width 1 leaves: red on
\* every pixel within r of the centre pixel, white on every pixel farther than
\* r and within r + 1 (a ring one pixel thick around the disk, no gap and no
\* overlap), and (0,0,0,0) everywhere else.  The example prints this stage,
\* F on the disk, S on the ring and a dot elsewhere, and leaves it cleared.
ExampleCircleRinged ==
    op.name = "example_circle" =>
        LET c == PixelOfWorld(op.x, op.y)
        IN  /\ pc = "live"
            /\ \A i \in 1..Len(op.drawn) :
                  op.drawn[i] =
                    IF Dist2(i, c) <= op.r * op.r THEN RED
                    ELSE IF Dist2(i, c) <= (op.r + 1) * (op.r + 1) THEN WHITE
                    ELSE <<0, 0, 0, 0>>
            /\ Printed(op.printed) =
                  [i \in 1..Len(op.drawn) |->
                      IF Dist2(i, c) <= op.r * op.r THEN "F"
                      ELSE IF Dist2(i, c) <= (op.r + 1) * (op.r + 1) THEN "S"
                      ELSE "."]
            /\ framebuf = [i \in 1..Len(op.drawn) |-> <<0, 0, 0, 0>>]

\* C12 witness: the circle of the example, radius 4 about (1,1), was drawn:
\* its centre pixel (11,6) and (15,6) are red, (16,6) is white, (17,6) is not
\* painted.
ExampleCircleDrawn ==
    /\ op.name = "example_circle" /\ op.x = 1 /\ op.y = 1 /\ op.r = 4
    /\ op.drawn[PosOf(<<11, 6>>)] = RED /\ op.drawn[PosOf(<<15, 6>>)] = RED
    /\ op.drawn[PosOf(<<16, 6>>)] = WHITE
    /\ op.drawn[PosOf(<<17, 6>>)] = <<0, 0, 0, 0>>
    /\ op.printed[7][16] = "F" /\ op.printed[7][17] = "S" /\ op.printed[7][18] = "."

\* ceil(w/2) and floor(w/2) of a finite positive width, from its quarters.
CeilHalf(w) == (Times4(w) + 7) \div 8
FloorHalf(w) == Times4(w) \div 8

\* A width the code gives a stroke band to.
BandWidth(w) == is_finite(w) /\ F32Lt(F32Zero, w)

\* A width whose halves are far from the limits of isize: one without a band,
\* or a multiple of 1/4 below 2^20.
PlainWidth(w) == ~BandWidth(w) \/ IsQuarter(w)

\* C13.  circle_pxl (shapes/circles.rs): for every nominal radius r0 and
\* stroke width w, a finite positive w (a multiple of 1/4 below 2^20) gives
\* outer = r0 + ceil(w/2) and inner = max(0, r0 - floor(w/2)); a width that is
\* not finite or not positive gives outer = inner = r0.  A stroke of width 1
\* therefore has outer = r0 + 1 and inner = r0.  The derivation panics for no
\* such width: it panics only where r0 + ceil(w/2) is more than an isize
\* holds.  The archived circle_px (arch_shapes/circles.rs): for every radius
\* r0 >= 1 and every stroke width, outer = r0 and inner = r0 - 1.  In both, a
\* stroke of width 1 has an outer radius one more than the inner radius.
RadiiOfWidth ==
    op.name = "radii" =>
        /\ PlainWidth(op.w1.w) =>
              /\ ~op.w1.panicked
              /\ op.w1.r = IF BandWidth(op.w1.w)
                           THEN <<op.r0 + CeilHalf(op.w1.w),
                                  Max(0, op.r0 - FloorHalf(op.w1.w))>>
                           ELSE <<op.r0, op.r0>>
        /\ op.arch = IF op.r0 >= 1 THEN Some(<<op.r0, op.r0 - 1>>) ELSE None
        /\ op.w1.w = Fin(1, 0) =>
              /\ op.w1.r = <<op.r0 + 1, op.r0>>
              /\ op.w1.r[1] = op.w1.r[2] + 1
              /\ IsSome(op.arch) => op.arch[1][1] = op.arch[1][2] + 1
        /\ op.w1.panicked => (op.r0 > 0 /\ Top(op.w1.w) > 8 * USIZE_BYTES - 1)
        /\ pc = "panicked" <=> (op.w1.panicked \/ op.w2.panicked)

\* C13 witness: the nominal radius 4 under a stroke of width 1 has the radii
\* (5, 4) in circle_pxl and (4, 3) in the archived circle_px.
RadiiOfWidthOne ==
    /\ op.name = "radii" /\ op.r0 = 4 /\ op.w1.w = Fin(1, 0)
    /\ op.w1.r = <<5, 4>>
    /\ op.arch = Some(<<4, 3>>)

\* C13 as stated, of circle_pxl alone and of the archived circle_px alone: a
\* stroke of width 1 has outer = inner = nominal radius.
RadiiEqualInCirclePxl ==
    (op.name = "radii" /\ op.w1.w = Fin(1, 0)) =>
        (op.w1.r[1] = op.r0 /\ op.w1.r[2] = op.r0)

RadiiEqualInArchived ==
    (op.name = "radii" /\ op.w1.w = Fin(1, 0) /\ IsSome(op.arch)) =>
        (op.arch[1][1] = op.r0 /\ op.arch[1][2] = op.r0)

\* C13 as stated: a stroke of width 1 has outer = inner = nominal radius, in
\* circle_pxl and in the archived circle_px.
RadiiOfWidthOneEqual == RadiiEqualInCirclePxl /\ RadiiEqualInArchived

\* Two finite positive widths w1 < w2 (multiples of 1/4 below 2^20) whose
\* inner radius is not clamped.
Widened ==
    /\ op.name = "radii"
    /\ BandWidth(op.w1.w) /\ BandWidth(op.w2.w) /\ F32Lt(op.w1.w, op.w2.w)
    /\ IsQuarter(op.w1.w) /\ IsQuarter(op.w2.w)
    /\ op.r0 - FloorHalf(op.w2.w) >= 0

\* C14.  For a fixed nominal radius and positive widths w1 < w2 (inner radius
\* not clamped) the annulus of w2 contains that of w1: the outer radius grows
\* by ceil(w2/2) - ceil(w1/2) >= 0 and the inner radius shrinks by
\* floor(w2/2) - floor(w1/2) >= 0.  The two amounts differ by at most one, and
\* are equal whenever w1/2 and w2/2 are both whole or both not whole.
WidenedContains ==
    Widened =>
        LET grow == op.w2.r[1] - op.w1.r[1]
            shrink == op.w1.r[2] - op.w2.r[2]
        IN  /\ grow = CeilHalf(op.w2.w) - CeilHalf(op.w1.w) /\ grow >= 0
            /\ shrink = FloorHalf(op.w2.w) - FloorHalf(op.w1.w) /\ shrink >= 0
            /\ Abs(grow - shrink) <= 1
            /\ ((Times4(op.w1.w) % 8 = 0) <=> (Times4(op.w2.w) % 8 = 0)) => grow = shrink

\* C14 witness: nominal radius 4, widths 1 and 3: radii (5, 4) become (6, 3).
WidenedByTwo ==
    /\ Widened /\ op.r0 = 4 /\ op.w1.w = Fin(1, 0) /\ op.w2.w = Fin(3, 0)
    /\ op.w1.r = <<5, 4>> /\ op.w2.r = <<6, 3>>

\* C14 as stated: the annulus of w2 strictly contains that of w1 and the outer
\* radius grows by the amount the inner radius shrinks.
WidenedSymmetric ==
    Widened =>
        /\ op.w2.r[1] >= op.w1.r[1] /\ op.w2.r[2] <= op.w1.r[2]
        /\ op.w2.r[1] > op.w1.r[1] \/ op.w2.r[2] < op.w1.r[2]
        /\ op.w2.r[1] - op.w1.r[1] = op.w1.r[2] - op.w2.r[2]

\* floor(a / b) for b # 0.
FloorDiv(a, b) == IF b < 0 THEN (0 - a) \div (0 - b) ELSE a \div b

\* The pixel nodes of the path of op.
OpPixels == [i \in 1..Len(op.nodes) |-> PixelOfWorld(op.nodes[i][1], op.nodes[i][2])]

\* The floored crossings of row y with the edges of the closed polygon: an
\* edge counts when y lies in [min y, max y) of its end points.
RowCrossings(nodes, y) ==
    LET n == Len(nodes)
    IN  { FloorDiv(nodes[i][1] * (nodes[(i % n) + 1][2] - nodes[i][2])
                     + (y - nodes[i][2]) * (nodes[(i % n) + 1][1] - nodes[i][1]),
                   nodes[(i % n) + 1][2] - nodes[i][2]) :
            i \in {k \in 1..n : /\ nodes[k][2] # nodes[(k % n) + 1][2]
                                /\ y >= Min(nodes[k][2], nodes[(k % n) + 1][2])
                                /\ y < Max(nodes[k][2], nodes[(k % n) + 1][2])} }

\* A closed convex polygon was rendered with a fill and no stroke.
ConvexFilled ==
    /\ op.name = "render_closed" /\ op.bad = 0
    /\ IsSome(op.style.fill) /\ ~IsSome(op.style.stroke)
    /\ StrictlyConvex(OpPixels)

\* C15.  After a closed convex polygon is rendered with a fill and no stroke on
\* a fresh stage, the pixel (x, y) holds the fill colour exactly when
\* min vertex y <= y < max vertex y and x lies strictly between the least and
\* the greatest floored crossing of row y; every other pixel, the crossing
\* pixels included, is untouched.
ConvexFillBetweenCrossings ==
    ConvexFilled =>
        LET nodes == OpPixels
            b == y_bound(nodes)
        IN  /\ pc = "live"
            /\ \A i \in 1..Len(framebuf) :
                  LET x == ColOf(i - 1, width)
                      y == RowOf(i - 1, width)
                      xs == RowCrossings(nodes, y)
                  IN  framebuf[i] =
                        IF /\ b[1] <= y /\ y < b[2]
                           /\ \E x0 \in xs : x0 < x
                           /\ \E x1 \in xs : x < x1
                        THEN RED ELSE <<0, 0, 0, 0>>

\* C15 witness: the triangle with pixel vertices (-1,-1), (3,-1), (-1,3) on the
\* 3x3 stage: row 0 has crossings -1 and 2, row 1 has -1 and 1, row 2 has -1
\* and 0; pixels (0,0), (1,0) and (0,1) are written, (2,0) is a crossing pixel.
ConvexFillDrawn ==
    /\ ConvexFilled
    /\ OpPixels = <<<<0 - 1, 0 - 1>>, <<3, 0 - 1>>, <<0 - 1, 3>>>>
    /\ Holding(RED) = {PosOf(<<0, 0>>), PosOf(<<1, 0>>), PosOf(<<0, 1>>)}

\* One vertex of the path of op has no pixel.
VertexFails == op.bad # 0

\* C18.  Path::render converts every vertex first: when the conversion of one
\* vertex fails, whichever vertex it is, the framebuffer is exactly as before
\* the call (neither the fill nor a stroke edge of the other vertices is drawn).
FailedPathUntouched ==
    [][(op'.name = "render_closed" /\ op'.bad # 0) =>
          (pc' = "live" /\ framebuf' = framebuf /\ width' = width /\ height' = height)]_vars

\* C18 witness: a path rendered with fill and stroke whose second vertex is
\* (2^64, 0) and whose other vertices (-1,1) and (1,-1) are on the stage; the
\* stage holds no painted pixel.
FailedPathSkipped ==
    /\ op.name = "render_closed" /\ op.bad = 2
    /\ op.nodes[1] = <<0 - 1, 1>> /\ op.nodes[3] = <<1, 0 - 1>>
    /\ IsSome(op.style.fill) /\ IsSome(op.style.stroke)
    /\ \A i \in 1..Len(framebuf) : framebuf[i] = <<0, 0, 0, 0>>

\* The triangle with pixel vertices (0,0), (10,0), (0,10), in any order.
RightTriangle ==
    /\ op.name = "draw_triangle_pxl"
    /\ {op.xy1, op.xy2, op.xy3} = {<<0, 0>>, <<10, 0>>, <<0, 10>>}

\* C16.  The scan-fill of the pixel vertices (0,0), (10,0), (0,10), given in
\* any order on a stage that contains them, writes exactly the pixels (x, y)
\* with 0 <= y <= 9 and 0 <= x <= 9 - y.
RightTriangleRegion ==
    RightTriangle =>
        /\ pc = "live"
        /\ \A i \in 1..Len(framebuf) :
              framebuf[i] =
                IF /\ 0 <= RowOf(i - 1, width) /\ RowOf(i - 1, width) <= 9
                   /\ 0 <= ColOf(i - 1, width)
                   /\ ColOf(i - 1, width) <= 9 - RowOf(i - 1, width)
                THEN RED ELSE <<0, 0, 0, 0>>

\* C16 witness: the triangle (0,0), (10,0), (0,10) was filled: 55 pixels are
\* written, (9,0) and (0,9) among them, (10,0) and (0,10) are not.
RightTriangleFilled ==
    /\ RightTriangle /\ op.xy1 = <<0, 0>> /\ op.xy2 = <<10, 0>>
    /\ Cardinality(Holding(RED)) = 55
    /\ framebuf[PosOf(<<9, 0>>)] = RED /\ framebuf[PosOf(<<0, 9>>)] = RED
    /\ framebuf[PosOf(<<10, 0>>)] # RED /\ framebuf[PosOf(<<0, 10>>)] # RED

\* The rows of a set of positions.
RowsOf(P) == {RowOf(i - 1, width) : i \in P}

\* On each row the positions of P are one run of neighbours.
OneRunPerRow(P) ==
    \A i \in P, j \in P :
        (RowOf(i - 1, width) = RowOf(j - 1, width) /\ i < j) => \A k \in i..j : k \in P

\* The least, middle and greatest y of the three vertices of op.
VertexYs == LET v == sort_vertices(op.xy1, op.xy2, op.xy3)
            IN  <<v[1][2], v[2][2], v[3][2]>>

\* C17.  One fill of any triangle writes the pixels of its flat-bottom part and
\* of its flat-top part and no others; the flat-bottom part writes only rows in
\* [top y, middle y), the flat-top part only rows in [middle y, bottom y), each
\* of them one run of pixels per row; so no pixel is written by both parts, the
\* row of the middle vertex is written by one part only, and the row of the
\* bottom vertex is never written.
TrianglePartsDisjoint ==
    op.name = "draw_triangle_pxl" =>
        LET ys == VertexYs
        IN  /\ pc = "live"
            /\ Holding(RED) = op.bottom \cup op.top
            /\ op.bottom \cap op.top = {}
            /\ \A y \in RowsOf(op.bottom) : ys[1] <= y /\ y < ys[2]
            /\ \A y \in RowsOf(op.top) : ys[2] <= y /\ y < ys[3]
            /\ OneRunPerRow(op.bottom) /\ OneRunPerRow(op.top)
            /\ ys[3] \notin RowsOf(Holding(RED))

\* C17 witness: the triangle (3,0), (10,3), (0,7) is split at row 3: both
\* parts write pixels, row 3 is written by the flat-top part, row 7 is blank.
TriangleSplit ==
    /\ op.name = "draw_triangle_pxl"
    /\ op.xy1 = <<3, 0>> /\ op.xy2 = <<10, 3>> /\ op.xy3 = <<0, 7>>
    /\ op.bottom # {} /\ op.top # {}
    /\ 3 \in RowsOf(op.top) /\ 3 \notin RowsOf(op.bottom)
    /\ 7 \notin RowsOf(Holding(RED))

\* A line between pixels was drawn.
LineDrawn == op.name \in {"draw_line", "line_px"}

\* The one pixel of W on column (axis 1) or row (axis 2) t; <<>> if W has
\* none or several there.
PixelAt(W, axis, t) ==
    LET on == {i \in W : (IF axis = 1 THEN ColOf(i - 1, width) ELSE RowOf(i - 1, width)) = t}
    IN  IF Cardinality(on) = 1
        THEN LET i == CHOOSE i \in on : TRUE
             IN  <<ColOf(i - 1, width), RowOf(i - 1, width)>>
        ELSE <<>>

\* C19.  When the clip leaves the segment (x1,y1)-(x2,y2), the pixels written
\* are max(|x2-x1|, |y2-y1|) + 1 in number, (x1,y1) and (x2,y2) among them,
\* exactly one on every column from x1 to x2 when |dx| >= |dy| (on every row
\* from y1 to y2 otherwise), neighbours on the driving axis being 8-adjacent;
\* all are pixels of the stage, and a zero-length segment on the stage writes
\* exactly its one pixel.
ClippedSegmentPlotted ==
    (LineDrawn /\ op.clip.some) =>
        LET a == op.clip.p0
            b == op.clip.p1
            dx == Abs(b[1] - a[1])
            dy == Abs(b[2] - a[2])
            axis == IF dx >= dy THEN 1 ELSE 2
            W == Holding(RED)
        IN  /\ pc = "live"
            /\ 0 <= a[1] /\ a[1] < width /\ 0 <= a[2] /\ a[2] < height
            /\ 0 <= b[1] /\ b[1] < width /\ 0 <= b[2] /\ b[2] < height
            /\ Cardinality(W) = Max(dx, dy) + 1
            /\ PosOf(a) \in W /\ PosOf(b) \in W
            /\ \A t \in Min(a[axis], b[axis])..Max(a[axis], b[axis]) :
                  /\ PixelAt(W, axis, t) # <<>>
                  /\ t < Max(a[axis], b[axis]) =>
                        /\ PixelAt(W, axis, t + 1) # <<>>
                        /\ Abs(PixelAt(W, axis, t + 1)[3 - axis]
                                 - PixelAt(W, axis, t)[3 - axis]) <= 1
            /\ (op.p0 = op.p1) => W = {PosOf(op.p0)}

\* C19 witness: the segment (-3,-1)-(3,2) is clipped to (0,0)-(3,2) and drawn
\* over four pixels, one per column; and the clip moved an end point.
ClippedSegmentDrawn ==
    /\ LineDrawn /\ op.clip.some
    /\ op.p0 = <<0 - 3, 0 - 1>> /\ op.p1 = <<3, 2>>
    /\ op.clip.p0 # op.p0
    /\ Cardinality(Holding(RED)) = Abs(op.clip.p1[1] - op.clip.p0[1]) + 1
    /\ Cardinality(Holding(RED)) >= 3

\* The segment p-q has a point (x, y) with 0 <= x <= width-1 and
\* 0 <= y <= height-1: the bounding boxes overlap and the corners of the stage
\* are not all strictly on one side of the line through p and q.
MeetsFrame(p, q) ==
    LET side(c) == (q[1] - p[1]) * (c[2] - p[2]) - (q[2] - p[2]) * (c[1] - p[1])
        corners == {<<0, 0>>, <<width - 1, 0>>, <<0, height - 1>>, <<width - 1, height - 1>>}
    IN  /\ Min(p[1], q[1]) <= width - 1 /\ Max(p[1], q[1]) >= 0
        /\ Min(p[2], q[2]) <= height - 1 /\ Max(p[2], q[2]) >= 0
        /\ ~(\A c \in corners : side(c) > 0)
        /\ ~(\A c \in corners : side(c) < 0)

\* C20.  A segment with no point on the stage is skipped: no pixel is changed.
OutsideSegmentSkipped ==
    (LineDrawn /\ ~MeetsFrame(op.p0, op.p1)) =>
        (pc = "live" /\ \A i \in 1..Len(framebuf) : framebuf[i] = <<0, 0, 0, 0>>)

\* -------------------------------------------------- the pixels of a circle
\* A circle of positive nominal radius has been drawn on the fresh stage.
CircleDrawn == op.name = "circle_pxl" /\ op.r0 > 0

\* The fresh stage of SpecCircle, and the constants of the circle drawn on it.
FreshCircleStage == new(UsizeOf(CircleSide), UsizeOf(CircleSide), TRUE)
CircleOf == CircleConsts(op.origin, op.r0, op.style)

\* The pixels the fill spans write and the pixels the stroke spans write: the
\* loop of circle_pxl on the fresh stage with the other colour absent and
\* the radii kept.
CircleFillWritten ==
    {i \in 1..Len(framebuf) :
        CircleLoop(FreshCircleStage, [CircleOf EXCEPT !.stroke_rgba = None]).framebuf[i]
            # TRANSPARENT}
CircleStrokeWritten ==
    {i \in 1..Len(framebuf) :
        CircleLoop(FreshCircleStage, [CircleOf EXCEPT !.fill_rgba = None]).framebuf[i]
            # TRANSPARENT}

\* The disc of the fill, and the ring of the stroke as the specification
\* states it and as it is when the inner radius is 0.
FillDisc ==
    {i \in 1..Len(framebuf) :
        /\ IsSome(CircleOf.fill_rgba) /\ CircleOf.r_fill > 0
        /\ Dist2(i, op.origin) <= CircleOf.r_fill2}
StrokeRing ==
    {i \in 1..Len(framebuf) :
        /\ IsSome(CircleOf.stroke_rgba)
        /\ CircleOf.r_in2 < Dist2(i, op.origin)
        /\ Dist2(i, op.origin) <= CircleOf.r_out2}
StrokeRingOrDisc ==
    {i \in 1..Len(framebuf) :
        /\ IsSome(CircleOf.stroke_rgba)
        /\ CircleOf.r_in = 0 \/ CircleOf.r_in2 < Dist2(i, op.origin)
        /\ Dist2(i, op.origin) <= CircleOf.r_out2}

\* Positions i and j mirror each other about row yc or about column xc.
Mirrored(i, j, p) ==
    \/ /\ RowOf(i - 1, width) = RowOf(j - 1, width)
       /\ ColOf(i - 1, width) + ColOf(j - 1, width) = 2 * p[1]
    \/ /\ ColOf(i - 1, width) = ColOf(j - 1, width)
       /\ RowOf(i - 1, width) + RowOf(j - 1, width) = 2 * p[2]

\* The drawn circle writes the fill colour on FillDisc and the stroke colour on
\* ring, the two being disjoint; it is mirror-symmetric and leaves the rest.
CircleWrites(ring) ==
    /\ pc = "live"
    /\ CircleFillWritten = FillDisc
    /\ CircleStrokeWritten = ring
    /\ FillDisc \cap ring = {}
    /\ \A i \in 1..Len(framebuf) :
          framebuf[i] = IF i \in ring THEN Unwrap(CircleOf.stroke_rgba)
                        ELSE IF i \in FillDisc THEN Unwrap(CircleOf.fill_rgba)
                        ELSE TRANSPARENT
    /\ \A i, j \in 1..Len(framebuf) :
          Mirrored(i, j, op.origin) => framebuf[i] = framebuf[j]

\* C21 (as stated, refuted).  The stroke colour lies exactly on the in-bounds
\* pixels with r_in^2 < d^2 <= r_out^2, the fill colour exactly on those with
\* d^2 <= r_fill^2; the sets are disjoint, the picture is mirror-symmetric and
\* every other pixel is unchanged.
CircleRingStrict == CircleDrawn => CircleWrites(StrokeRing)

\* C21.  A circle of positive nominal radius about pixel (xc, yc) writes the
\* fill colour exactly on the in-bounds pixels with d^2 <= r_fill^2 (a fill
\* present, r_fill > 0) and the stroke colour exactly on the in-bounds pixels
\* with d^2 <= r_out^2 and, unless r_in = 0, r_in^2 < d^2: with r_in = 0 the
\* stroke covers the whole disc, centre pixel included.  The two sets are
\* disjoint, the picture is mirror-symmetric about row yc and column xc, and
\* every other pixel is unchanged.
CirclePixelSets == CircleDrawn => CircleWrites(StrokeRingOrDisc)

\* A circle with a fill and a stroke was drawn, both colours on the stage.
CircleDiscAndRing ==
    /\ CircleDrawn
    /\ CircleFillWritten # {}
    /\ CircleStrokeWritten # {}

\* ------------------------------------------------- the polygon fill's rows
\* make_fill_pxl has run on a list of three or more vertices.
FillReached == op.name = "make_fill_pxl" /\ Len(op.nodes) >= 3

\* C22.  For every list of three or more pixel vertices that make_fill_pxl
\* is given and every scanline row of the stage, the number of crossings
\* collected is even; the evenness assertion holds (the call does not panic).
CrossingsEven ==
    FillReached =>
        /\ pc = "live"
        /\ \A y \in 0..(height - 1) : Len(Crossings(op.nodes, y, 1)) % 2 = 0

\* A self-crossing list of four vertices was filled, a row of it with four
\* crossings.
FourCrossings ==
    /\ FillReached
    /\ \E y \in 0..(height - 1) : Len(Crossings(op.nodes, y, 1)) = 4

\* ---------------------------------------------- the fill beside the stroke
\* The fresh stage of SpecPoly.
FreshPolyStage == new(UsizeOf(PolySide), UsizeOf(PolySide), TRUE)

\* The pixels the single-pixel edge lines of the closed list write.
EdgeLines == Painted(make_stroke_pxl(op.nodes, TRUE, F32One, FreshPolyStage, BLUE), BLUE)

\* Pixel x of row y lies strictly between the crossings of a pair.
InsidePair(crossings, x) ==
    \E j \in 1..Len(crossings) :
        j % 2 = 1 /\ j + 1 <= Len(crossings) /\ crossings[j] < x /\ x < crossings[j + 1]

\* C23 (as stated, refuted).  The fill of a closed list writes no pixel that
\* the single-pixel edge lines of the list write.
FillAvoidsEdgeLines == FillReached => Painted(Self, RED) \cap EdgeLines = {}

\* C23.  The fill of a closed list writes exactly the pixels strictly between
\* the paired crossings of their row, never a crossing pixel itself; pixels of
\* the edge lines other than the crossing pixels may be among them.
FillSparesCrossings ==
    FillReached =>
        \A i \in 1..Len(framebuf) :
            framebuf[i] = (IF InsidePair(sort_unstable(Crossings(op.nodes, RowOf(i - 1, width), 1)),
                                         ColOf(i - 1, width))
                           THEN RED ELSE TRANSPARENT)

\* A fill wrote a pixel of an edge line of its list.
FillMeetsEdgeLine == FillReached /\ Painted(Self, RED) \cap EdgeLines # {}

\* ------------------------------------------------------ the order of render
\* A path was rendered from its pixel list.
Rendered == op.name = "render"

\* What the fill pass of the rendered path leaves on the fresh stage: the
\* fill of a closed path with a fill, nothing otherwise.
FillPassAlone ==
    IF op.closed /\ IsSome(op.style.fill)
    THEN make_fill_pxl(op.nodes, FreshPolyStage, Fill_rgba(Unwrap(op.style.fill)))
    ELSE FreshPolyStage

\* The pixels the stroke pass of the rendered path writes.
StrokePassWritten ==
    IF IsSome(op.style.stroke)
    THEN Painted(make_stroke_pxl(op.nodes, op.closed, Unwrap(op.style.stroke).width,
                                 FreshPolyStage, Stroke_rgba(Unwrap(op.style.stroke))),
                 Stroke_rgba(Unwrap(op.style.stroke)))
    ELSE {}

\* C24.  After Path::render every pixel the stroke pass writes holds the
\* stroke's resolved colour, also where the fill wrote it; every other pixel
\* holds what the fill pass left, and the fill pass writes only for a closed
\* path with a fill: an open path holds no pixel of the fill colour.
FillThenStroke ==
    Rendered =>
        LET written == StrokePassWritten
            filled == FillPassAlone.framebuf
        IN  /\ pc = "live"
            /\ \A i \in 1..Len(framebuf) :
                  framebuf[i] = IF i \in written
                                THEN Stroke_rgba(Unwrap(op.style.stroke))
                                ELSE filled[i]
            /\ ~op.closed => Painted(Self, RED) = {}

\* A closed path was rendered with a fill and a stroke, and a pixel the fill
\* wrote holds the stroke's colour.
StrokeOverFill ==
    /\ Rendered
    /\ op.closed
    /\ \E i \in StrokePassWritten :
          /\ FillPassAlone.framebuf[i] = RED
          /\ framebuf[i] = Stroke_rgba(Unwrap(op.style.stroke))

\* ------------------------------------------------- the one-pixel stroke
\* make_stroke_pxl has run.
Stroked == op.name = "make_stroke_pxl"

\* The pixels of the single-pixel line from p to q on the fresh stage.
LinePixels(p, q) == Painted(draw_line(FreshPolyStage, p, q, BLUE), BLUE)

\* The pixels of the lines between consecutive vertices, and of the line from
\* the last vertex back to the first.
OpenLines == UNION {LinePixels(op.nodes[i], op.nodes[i + 1]) : i \in 1..(Len(op.nodes) - 1)}
ClosingLine == LinePixels(op.nodes[Len(op.nodes)], op.nodes[1])

\* C25.  A stroke of finite width in (0, 1] over two or more pixel vertices
\* writes the stroke colour exactly on the union of the single-pixel lines of
\* the consecutive pairs, with the line from the last vertex to the first if
\* and only if the path is closed; with fewer than two vertices, or a width
\* that is not finite or not positive, it writes nothing.
StrokeIsUnionOfLines ==
    Stroked =>
        /\ pc = "live"
        /\ \A i \in 1..Len(framebuf) : framebuf[i] \in {BLUE, TRANSPARENT}
        /\ Painted(Self, BLUE) =
              IF Len(op.nodes) >= 2 /\ is_finite(op.w) /\ F32Lt(F32Zero, op.w)
              THEN OpenLines \cup (IF op.closed THEN ClosingLine ELSE {})
              ELSE {}

\* A closed list of three vertices was stroked and its closing line holds a
\* pixel that the other lines do not.
ClosingLineDrawn ==
    /\ Stroked
    /\ op.closed
    /\ Len(op.nodes) = 3
    /\ \E i \in Painted(Self, BLUE) : i \in ClosingLine /\ i \notin OpenLines

\* ------------------------------------------- triangles that share an edge
\* A triangle was filled on the fresh stage of SpecTri.
TriangleFilled == op.name = "draw_triangle_pxl"

\* The fresh stage of SpecTri and the pixels fill_triangle writes on it.
FreshTriStage == new(UsizeOf(TriSide), UsizeOf(TriSide), TRUE)
FillOf(a, b, c) == Painted(fill_triangle(FreshTriStage, a, b, c, RED), RED)

\* b and d lie strictly on opposite sides of the line through a and c.
OppositeSides(a, c, b, d) == Turn(a, c, b) * Turn(a, c, d) < 0

\* C26 (refuted).  The fill of the triangle a, b, c shares no pixel with the
\* fill of any triangle a, c, d whose vertex d lies across the edge a-c from b.
SharedEdgeDisjoint ==
    TriangleFilled =>
        \A d \in TriPoints :
            OppositeSides(op.xy1, op.xy3, op.xy2, d)
                => Painted(Self, RED) \cap FillOf(op.xy1, op.xy3, d) = {}

\* ------------------------------------------------ the order of the vertices
\* C30.  fill_triangle writes the same set of pixels for all six orders of
\* its three vertices, two vertices tying on y included.
FillOrderFree ==
    TriangleFilled =>
        LET a == op.xy1
            b == op.xy2
            c == op.xy3
        IN  /\ pc = "live"
            /\ FillOf(a, c, b) = Painted(Self, RED)
            /\ FillOf(b, a, c) = Painted(Self, RED)
            /\ FillOf(b, c, a) = Painted(Self, RED)
            /\ FillOf(c, a, b) = Painted(Self, RED)
            /\ FillOf(c, b, a) = Painted(Self, RED)

\* A flat-top triangle was filled with the right one of its two top vertices
\* given first.
TiedTopSwapped ==
    /\ TriangleFilled
    /\ op.xy1[2] = op.xy2[2]
    /\ op.xy1[1] > op.xy2[1]
    /\ op.xy3[2] > op.xy1[2]
    /\ Painted(Self, RED) # {}

\* ------------------------------------------------- the end of the clip
\* With end points no more than ClipMargin pixels off the stage the loop
\* returns after at most four moves of an end point.
ClipTerminates == <>(op.ret # "running" /\ op.iter <= 4)

\* A clip accepted after four moves.
ClipFourMoves == op.ret = "some" /\ op.iter = 4

\* C27.  The loop of clip_line_to_stage terminates for every stage size and
\* every pair of integer end points: every pass returns or moves an end
\* point (none panics), and no pass starts from end points that an earlier
\* pass started from, so that the loop comes to an accept or a reject.
ClipReturns == pc = "live" /\ ~ClipRepeats

\* The part of it that is about the profile without overflow checks: there
\* the loop does not repeat itself.
ClipWrappingEnds == ~(~op.checks /\ ClipRepeats)

\* The part of it that is about the profile with overflow checks: there no
\* pass panics.
ClipCheckedReturns == ~(op.checks /\ pc = "panicked")

\* C28.  No pass of the clip meets a zero divisor: a move in the top or
\* bottom branch has dy # 0, a move in the left or right branch dx # 0; the
\* guarded version never returns None for it and the unguarded never panics.
ClipDivisorNonZero ==
    /\ pc = "live"
    /\ op.ret # "panic"
    /\ op.divisor # 0
    /\ op.ret = "running" => ClipNow.kind # "zero"

\* A move was made in each kind of branch: the last one across the top or
\* bottom edge with end points that then differ in x only by the divisor's use.
ClipMovedBothWays ==
    /\ op.iter >= 2
    /\ op.branch \in {"left", "right"}
    /\ op.ret = "running"
    /\ ClipNow.kind = "move"
    /\ ClipNow.branch \in {"top", "bottom"}

\* ----------------------------------------------------------- memory safety
\* C29.  A live stage has width * height pixels, and stays so under every
\* call, pixels_mut (a slice of the array's own length) included: no call of
\* set_pixel, get_pixel, plot or fill_span indexes outside the array (none
\* panics) or changes the dimensions; set_pixel and plot change no pixel but
\* (x, y), fill_span none outside row y, and get_pixel returns a pixel only
\* for x < width and y < height, whatever the coordinates.
MemorySafe ==
    [][/\ pc' = "live" => Len(framebuf') = width' * height'
       /\ pc = "live" /\ op'.name \in {"set_pixel", "get_pixel", "plot", "fill_span"} =>
             /\ SameStage
             /\ \A i \in 0..(Len(framebuf) - 1) :
                   framebuf'[i + 1] # framebuf[i + 1] =>
                       /\ op'.name # "get_pixel"
                       /\ 0 <= op'.y /\ op'.y < height
                       /\ RowOf(i, width) = op'.y
                       /\ op'.name # "fill_span" => ColOf(i, width) = op'.x
             /\ op'.name = "get_pixel" /\ IsSome(op'.ret) =>
                   op'.x < width /\ op'.y < height]_vars

\* A span reaching past the right end of the last row was written up to the
\* last pixel of the array, on a stage of more than one row.
SpanEndsArray ==
    /\ pc = "live"
    /\ op.name = "fill_span"
    /\ height > 1
    /\ op.y = height - 1
    /\ op.x0 < width
    /\ op.x1 >= width
    /\ framebuf[Len(framebuf)] = op.color
    /\ framebuf[Len(framebuf) - width] # op.color

====
